---- MODULE Spec2Model ----
(***************************************************************************)
(* Model of the hue-cli entertainment streaming pipeline:                  *)
(*   - the HueStream frame encoder (DTLSStream.buildStreamMessage),        *)
(*   - the DTLS session (DTLSStream.SendColors / Close),                   *)
(*   - the WebSocket bridge (handleWebSocket, handleStatus, keepAlive,     *)
(*     cleanup) and its start-up (StartWebSocketServer),                   *)
(*   - the effect command (streamEffect, DTLSStream.StreamEffect).         *)
(* Strings that the code parses are sequences of one-character strings.    *)
(***************************************************************************)
EXTENDS Integers, Sequences, FiniteSets, TLC

\* ------------------------------------------------------------------ bounds
\* longest fixture list drawn for the encoder specification
MaxLights == 2
\* SendColors calls made in one run, over all tasks
MaxSends == 2
\* largest clock reading time.Now() returns
MaxTime == 1
\* DTLSStream.Close calls made on one stream by its owner
MaxCloses == 3

\* ------------------------------------------------------------ value domains
\* a rune the string syntax cannot spell is written by its code point:
\* the vertical tab
VT == "U+000B"

\* fixture identifiers as sequences of runes: "5", "6", "300", "x", "70000",
\* "12a", TAB followed by 6, VT followed by 5, and "5_"
LightIDs ==
  { <<"5">>, <<"6">>, <<"3", "0", "0">>, <<"x">>,
    <<"7", "0", "0", "0", "0">>, <<"1", "2", "a">>, <<"\t", "6">>,
    <<VT, "5">>, <<"5", "_">> }

\* identifiers that producer messages use as keys of "lights"
MsgLightIDs == { <<"5">>, <<"3", "0", "0">>, <<"x">> }

\* RGB represents an RGB color
RGB(r, g, b) == [R |-> r, G |-> g, B |-> b]

RGBSamples == { RGB(0, 0, 0), RGB(255, 0, 0), RGB(1, 128, 255) }

\* all maps from a subset of ids to colours (Go: map[string]RGB)
ColorMaps(ids, cols) == UNION { [d -> cols] : d \in SUBSET ids }

EmptyColors == [x \in {} |-> RGB(0, 0, 0)]

\* all lists over ids of length 0..n
RECURSIVE ListsUpTo(_, _)
ListsUpTo(ids, n) ==
  IF n = 0 THEN { <<>> }
  ELSE ListsUpTo(ids, n - 1) \cup
       { Append(l, x) : l \in { m \in ListsUpTo(ids, n - 1) : Len(m) = n - 1 }, x \in ids }

\* --------------------------------------------------------------- variables
VARIABLES
  areaLights,       \* s.area.Lights: ordered fixture identifiers
  sequenceNum,      \* DTLSStream.sequenceNum (uint8)
  isActive,         \* DTLSStream.isActive
  connOpen,         \* DTLSStream.conn is open (not yet Close()d)
  wire,             \* transport: the last frame handed to conn.Write, by whom, and whether it went out
  isStreaming,      \* WebSocketServer.isStreaming
  mutex,            \* WebSocketServer.mutex: the task holding it, or NoTask
  stopClosed,       \* WebSocketServer.stopChan has been closed
  lastColors,       \* WebSocketServer.lastColors
  lastMessageTime,  \* WebSocketServer.lastMessageTime
  activated,        \* the bridge has streaming active for the area
  pc,               \* position of every task
  colors,           \* per sending task: the colour map passed to SendColors
  buf,              \* per sending task: the frame built inside SendColors
  tmpSeq,           \* per sending task: sequenceNum as loaded by s.sequenceNum++
  sendErr,          \* per sending task: the error SendColors returned
  nSends,           \* SendColors calls made so far
  outbox,           \* per producer: JSON objects written back to the producer
  kLast,            \* keepAlive: its local copy lastColors
  statusResp,       \* the last response of /status (code 0: none yet)
  statusPc,         \* handleStatus: where the request being served stands
  statusIsStreaming,\* handleStatus: its local isStreaming, read under the lock
  encColors,        \* encoder specification: the colour map to encode
  encBuf,           \* encoder specification: the frame built (<<>> before the call)
  openAttempts,     \* createDTLSStreamConnection calls made by StartWebSocketServer
  startErr,         \* the error StartWebSocketServer returned
  nCloses,          \* DTLSStream.Close calls completed
  sinceSend,        \* ticker periods elapsed since keepAlive last called SendColors
  inMsg,            \* inbound specification: the "lights" object the peers send
  clientKey,        \* the bridge configuration holds a client key
  priorStream,      \* the bridge still streams for the area from an earlier activation
  nDeactivates,     \* deactivateStreaming calls made so far
  effectName,       \* streamEffect: the effect name passed in
  durationSec,      \* streamEffect: the duration passed in, in seconds
  elapsed,          \* effect loop: time.Since(startTime), in milliseconds
  deferred,         \* streamEffect: the calls deferred so far, oldest first
  exitCalls,        \* streamEffect: the deferred calls run at return, in order
  httpEffect,       \* streamEffectHTTP: the effect started over the HTTP API
  effErr,           \* the error streamEffect returned
  hue,              \* streamRainbowEffect: its local hue, in degrees
  phase,            \* streamPulseEffect: its local phase, in tenths
  offset            \* streamWaveEffect: its local offset, in degrees

encVars == <<encColors, encBuf>>
lifeVars == <<openAttempts, startErr, nCloses>>
envVars == <<clientKey, priorStream, nDeactivates>>
loopVars == <<hue, phase, offset>>
effVars == <<effectName, durationSec, elapsed, deferred, exitCalls, httpEffect, effErr, loopVars>>
streamVars == <<areaLights, sequenceNum, isActive, connOpen>>
serverVars == <<isStreaming, mutex, stopClosed, lastColors, lastMessageTime, activated>>
sendVars == <<colors, buf, tmpSeq, sendErr>>
statusVars == <<statusResp, statusPc, statusIsStreaming>>
taskVars == <<pc, nSends, outbox, kLast, statusVars>>
vars == <<streamVars, wire, serverVars, sendVars, taskVars, encVars, inMsg, lifeVars, sinceSend, envVars, effVars>>

\* ------------------------------------------------------------------- tasks
Producers == {"p1", "p2"}
Keeper == "keeper"
Main == "main"
Senders == Producers \cup {Keeper}
NoTask == "none"
NoError == "nil"

\* the error server.server.ListenAndServe() returned when it is not
\* http.ErrServerClosed
ListenError == "listen and serve failed"

\* ------------------------------------------------------------ frame encoder
Digits == <<"0", "1", "2", "3", "4", "5", "6", "7", "8", "9">>

IsDigit(c) == \E i \in 1..10 : Digits[i] = c

DigitValue(c) == (CHOOSE i \in 1..10 : Digits[i] = c) - 1

\* unicode white space as fmt's isSpace knows it (U+0009..U+000D, U+0020,
\* U+0085, U+00A0, U+1680, U+2000..U+200A, U+2028, U+2029, U+202F, U+205F,
\* U+3000), without the newline U+000A, which ss.SkipSpace treats apart
IsSpace(c) ==
  c \in {"\t", VT, "\f", "\r", " ", "U+0085", "U+00A0", "U+1680",
         "U+2000", "U+2001", "U+2002", "U+2003", "U+2004", "U+2005",
         "U+2006", "U+2007", "U+2008", "U+2009", "U+200A",
         "U+2028", "U+2029", "U+202F", "U+205F", "U+3000"}

\* fmt: ss.SkipSpace() drops leading white space before a number and stops
\* at a newline, which Sscanf does not take for space
RECURSIVE SkipSpace(_)
SkipSpace(s) ==
  IF s # <<>> /\ IsSpace(Head(s)) THEN SkipSpace(Tail(s)) ELSE s

\* fmt: ss.scanNumber(digits) accepts the longest run of leading runes of
\* digits, which for %d is decimalDigits = "0123456789" (the underscore
\* belongs to the digits of %v only), and leaves the rest unread
RECURSIVE scanNumber(_)
scanNumber(s) ==
  IF s # <<>> /\ IsDigit(Head(s)) THEN <<Head(s)>> \o scanNumber(Tail(s)) ELSE <<>>

\* strconv.ParseUint(tok, 10, 64) on a run of digits
RECURSIVE ParseUint(_)
ParseUint(tok) ==
  IF tok = <<>> THEN 0
  ELSE 10 * ParseUint(SubSeq(tok, 1, Len(tok) - 1)) + DigitValue(tok[Len(tok)])

\* var lightIDNum uint16; fmt.Sscanf(lightID, "%d", &lightIDNum):
\* no leading digit, or a value that does not fit 16 bits, is a scan error
\* that leaves lightIDNum at its zero value
lightIDNum(lightID) ==
  LET tok == scanNumber(SkipSpace(lightID))
  IN  IF tok = <<>> THEN 0
      ELSE IF ParseUint(tok) > 65535 THEN 0
      ELSE ParseUint(tok)

\* mutant: the low byte first
LittleEndian16(v) == << v % 256, v \div 256 >>

\* binary.Write(buf, binary.BigEndian, v) for a uint16
BigEndian16(v) == << v \div 256, v % 256 >>

\* mutant: 0..255 scaled onto the full 0..65535 range
ShiftLeft8Full(c) == c * 257

\* uint16(c) << 8
ShiftLeft8(c) == (c * 256) % 65536

\* rgb, ok := lightColors[lightID]; if !ok { rgb = RGB{0,0,0} }
lookupColor(lightColors, lightID) ==
  IF lightID \in DOMAIN lightColors THEN lightColors[lightID] ELSE RGB(0, 0, 0)

\* mutant: the sequence number written after the two reserved bytes
streamHeaderSeqLate ==
  <<72, 117, 101, 83, 116, 114, 101, 97, 109>> \o <<1, 0>> \o <<0, 0>>
    \o <<sequenceNum>> \o <<0>> \o <<0>>

\* the 16-byte header: "HueStream", version 1.0, sequence number, reserved,
\* colour space RGB, reserved
streamHeader ==
  <<72, 117, 101, 83, 116, 114, 101, 97, 109>> \o <<1, 0>> \o <<sequenceNum>>
    \o <<0, 0>> \o <<0>> \o <<0>>

\* one loop iteration of buildStreamMessage: type, light ID, R, G, B
lightRecord(lightID, lightColors) ==
  LET rgb == lookupColor(lightColors, lightID)
  IN  <<0>> \o BigEndian16(lightIDNum(lightID))
        \o BigEndian16(ShiftLeft8(rgb.R))
        \o BigEndian16(ShiftLeft8(rgb.G))
        \o BigEndian16(ShiftLeft8(rgb.B))

\* mutant: a fixture without an entry in the colour map gets no record
RECURSIVE lightDataSkipAbsent(_, _)
lightDataSkipAbsent(lights, lightColors) ==
  IF lights = <<>> THEN <<>>
  ELSE (IF Head(lights) \in DOMAIN lightColors
          THEN lightRecord(Head(lights), lightColors) ELSE <<>>)
       \o lightDataSkipAbsent(Tail(lights), lightColors)

\* for _, lightID := range s.area.Lights { ... }
RECURSIVE lightData(_, _)
lightData(lights, lightColors) ==
  IF lights = <<>> THEN <<>>
  ELSE lightRecord(Head(lights), lightColors) \o lightData(Tail(lights), lightColors)

\* DTLSStream.buildStreamMessage
buildStreamMessage(lightColors) ==
  streamHeader \o lightData(areaLights, lightColors)

\* ------------------------------------------------ encoder specification
SeqSamples == {0, 1, 255}

\* streamEffect is not running and has not run
NoEffect ==
  /\ effectName = ""
  /\ durationSec = 0
  /\ elapsed = 0
  /\ deferred = <<>>
  /\ exitCalls = <<>>
  /\ httpEffect = ""
  /\ effErr = NoError
  /\ hue = 0 /\ phase = 0 /\ offset = 0

\* the session and the server as StartWebSocketServer leaves them when the
\* tasks start, for the fixture list and the sequence number given
InitWith(lights, seq) ==
  /\ areaLights = lights
  /\ sequenceNum = seq
  /\ isActive = TRUE
  /\ connOpen = TRUE
  /\ wire = [by |-> NoTask, buf |-> <<>>, ok |-> FALSE]
  /\ isStreaming = FALSE
  /\ mutex = NoTask
  /\ stopClosed = FALSE
  /\ lastColors = EmptyColors
  /\ lastMessageTime = 0
  /\ activated = TRUE
  /\ pc = [t \in Senders \cup {Main} |->
            IF t \in Producers THEN "idle" ELSE IF t = Keeper THEN "select" ELSE "serving"]
  /\ colors = [t \in Senders |-> EmptyColors]
  /\ buf = [t \in Senders |-> <<>>]
  /\ tmpSeq = [t \in Senders |-> 0]
  /\ sendErr = [t \in Senders |-> NoError]
  /\ nSends = 0
  /\ outbox = [p \in Producers |-> <<>>]
  /\ kLast = EmptyColors
  /\ statusResp = [code |-> 0]
  /\ statusPc = "idle"
  /\ statusIsStreaming = FALSE
  /\ encBuf = <<>>
  /\ openAttempts = 1
  /\ startErr = NoError
  /\ nCloses = 0
  /\ sinceSend = 0
  /\ clientKey = TRUE
  /\ priorStream = FALSE
  /\ nDeactivates = 0
  /\ NoEffect

InitEnc ==
  /\ \E lights \in ListsUpTo(LightIDs, MaxLights), seq \in SeqSamples : InitWith(lights, seq)
  /\ encColors \in ColorMaps(MsgLightIDs, RGBSamples)
  /\ inMsg = <<>>

\* one call of buildStreamMessage on the colour map drawn
Encode ==
  /\ encBuf = <<>>
  /\ encBuf' = buildStreamMessage(encColors)
  /\ UNCHANGED <<encColors, streamVars, wire, serverVars, sendVars, taskVars,
                 inMsg, lifeVars, sinceSend, envVars, effVars>>

NextEnc == Encode

SpecEnc == InitEnc /\ [][NextEnc]_vars

\* ------------------------------------------------- frame encoder: claims
\* the 16-bit big-endian word of a frame that starts at byte `at` (1-based)
Word(frame, at) == frame[at] * 256 + frame[at + 1]

\* first byte of the record of the i-th fixture
RecordAt(i) == 16 + 9 * (i - 1) + 1

\* the set of identifiers of a fixture list
LightSet(lights) == { lights[i] : i \in 1..Len(lights) }

\* what fmt.Sscanf(id, "%d", &uint16) leaves for each identifier drawn
ExpectedIDNum(id) ==
  CASE id = <<"5">> -> 5
    [] id = <<"6">> -> 6
    [] id = <<"3", "0", "0">> -> 300
    [] id = <<"x">> -> 0
    [] id = <<"7", "0", "0", "0", "0">> -> 0
    [] id = <<"1", "2", "a">> -> 12
    [] id = <<"\t", "6">> -> 6
    [] id = <<VT, "5">> -> 5
    [] id = <<"5", "_">> -> 5

\* C1: the frame built by buildStreamMessage is exactly 16 + 9*len(L) bytes
\* long, whatever fixture identifiers the colour map holds
C1_FrameLength ==
  encBuf # <<>> => Len(encBuf) = 16 + 9 * Len(areaLights)

\* two fixtures, a colour map with an identifier that is not among them
C1_Witness ==
  /\ encBuf # <<>>
  /\ Len(areaLights) = 2
  /\ \E id \in DOMAIN encColors : id \notin LightSet(areaLights)
  /\ \E id \in LightSet(areaLights) : id \notin DOMAIN encColors
  /\ Len(encBuf) = 34

\* C2: a fixture of the list that the colour map lacks is encoded as
\* (0,0,0); a fixture it holds has every channel encoded as channel << 8
C2_ChannelEncoding ==
  encBuf # <<>> =>
    \A i \in 1..Len(areaLights) :
      LET id == areaLights[i]
          at == RecordAt(i)
      IN  IF id \in DOMAIN encColors
            THEN /\ Word(encBuf, at + 3) = encColors[id].R * 256
                 /\ Word(encBuf, at + 5) = encColors[id].G * 256
                 /\ Word(encBuf, at + 7) = encColors[id].B * 256
            ELSE /\ Word(encBuf, at + 3) = 0
                 /\ Word(encBuf, at + 5) = 0
                 /\ Word(encBuf, at + 7) = 0

\* lights {"5": (255,0,0)} against the order ["5","6"]: fixture 5 is
\* (65280,0,0), fixture 6 is (0,0,0)
C2_Witness ==
  /\ areaLights = << <<"5">>, <<"6">> >>
  /\ DOMAIN encColors = { <<"5">> }
  /\ encColors[<<"5">>] = RGB(255, 0, 0)
  /\ Len(encBuf) = 34
  /\ Word(encBuf, 20) = 65280 /\ Word(encBuf, 22) = 0 /\ Word(encBuf, 24) = 0
  /\ Word(encBuf, 29) = 0 /\ Word(encBuf, 31) = 0 /\ Word(encBuf, 33) = 0

\* C3: every frame starts with the 16-byte header: "HueStream", 0x01 0x00,
\* the current sequence number, two zero bytes, colour space 0x00, a zero byte
C3_Header ==
  encBuf # <<>> =>
    /\ Len(encBuf) >= 16
    /\ SubSeq(encBuf, 1, 9) = <<72, 117, 101, 83, 116, 114, 101, 97, 109>>
    /\ encBuf[10] = 1 /\ encBuf[11] = 0
    /\ encBuf[12] = sequenceNum
    /\ encBuf[13] = 0 /\ encBuf[14] = 0
    /\ encBuf[15] = 0
    /\ encBuf[16] = 0

\* a frame built at sequence number 255
C3_Witness ==
  /\ encBuf # <<>>
  /\ sequenceNum = 255
  /\ SubSeq(encBuf, 10, 16) = <<1, 0, 255, 0, 0, 0, 0>>

\* C4: after the header the frame holds one 9-byte record per fixture of the
\* list, in the list's order: type 0x00, the numeric identifier as a 2-byte
\* big-endian value, the three 2-byte channels; the colour map decides only
\* the channel values
C4_Records ==
  encBuf # <<>> =>
    /\ Len(encBuf) = 16 + 9 * Len(areaLights)
    /\ \A i \in 1..Len(areaLights) :
         LET id == areaLights[i]
             at == RecordAt(i)
             rgb == IF id \in DOMAIN encColors THEN encColors[id] ELSE RGB(0, 0, 0)
         IN  /\ encBuf[at] = 0
             /\ Word(encBuf, at + 1) = ExpectedIDNum(id)
             /\ Word(encBuf, at + 3) = rgb.R * 256
             /\ Word(encBuf, at + 5) = rgb.G * 256
             /\ Word(encBuf, at + 7) = rgb.B * 256

\* fixtures "300" and "x" in this order, coloured by a map that names "x"
\* and a fixture outside the list: the records are 300 (0x012C) and 0
C4_Witness ==
  /\ areaLights = << <<"3", "0", "0">>, <<"x">> >>
  /\ DOMAIN encColors = { <<"x">>, <<"5">> }
  /\ encColors[<<"x">>] = RGB(1, 128, 255)
  /\ Len(encBuf) = 34
  /\ SubSeq(encBuf, 17, 25) = <<0, 1, 44, 0, 0, 0, 0, 0, 0>>
  /\ SubSeq(encBuf, 26, 34) = <<0, 0, 0, 1, 0, 128, 0, 255, 0>>

\* ------------------------------------------------------ DTLSStream.SendColors
\* the locals buf and the loaded counter die when SendColors returns
Return(t, err) ==
  /\ pc' = [pc EXCEPT ![t] = "ret"]
  /\ sendErr' = [sendErr EXCEPT ![t] = err]
  /\ buf' = [buf EXCEPT ![t] = <<>>]
  /\ tmpSeq' = [tmpSeq EXCEPT ![t] = 0]

\* mutant: SendColors builds and writes the frame whatever the flag says
SendCheckIgnoresActive(t) ==
  /\ pc[t] = "send"
  /\ pc' = [pc EXCEPT ![t] = "build"]
  /\ sinceSend' = IF t = Keeper THEN 0 ELSE sinceSend
  /\ UNCHANGED <<streamVars, wire, serverVars, colors, sendErr, buf, tmpSeq,
                 nSends, outbox, kLast, statusVars, encVars, inMsg, lifeVars, envVars, effVars>>

\* SendColors is entered (by keepAlive: its send attempt of this tick);
\* if !s.isActive { return fmt.Errorf("stream not active") }
SendCheck(t) ==
  /\ pc[t] = "send"
  /\ IF isActive
       THEN /\ pc' = [pc EXCEPT ![t] = "build"]
            /\ UNCHANGED <<sendErr, buf, tmpSeq>>
       ELSE Return(t, "stream not active")
  /\ sinceSend' = IF t = Keeper THEN 0 ELSE sinceSend
  /\ UNCHANGED <<streamVars, wire, serverVars, colors,
                 nSends, outbox, kLast, statusVars, encVars, inMsg, lifeVars, envVars, effVars>>

\* buf := s.buildStreamMessage(lightColors)
SendBuild(t) ==
  /\ pc[t] = "build"
  /\ buf' = [buf EXCEPT ![t] = buildStreamMessage(colors[t])]
  /\ pc' = [pc EXCEPT ![t] = "write"]
  /\ UNCHANGED <<streamVars, wire, serverVars, colors, tmpSeq, sendErr,
                 nSends, outbox, kLast, statusVars, encVars, inMsg, lifeVars, sinceSend, envVars, effVars>>

\* mutant: a failed write also clears s.isActive
SendWriteMarksInactive(t) ==
  /\ pc[t] = "write"
  /\ \E ok \in (IF connOpen THEN BOOLEAN ELSE {FALSE}) :
       /\ wire' = [by |-> t, buf |-> buf[t], ok |-> ok]
       /\ IF ok
            THEN /\ pc' = [pc EXCEPT ![t] = "load"]
                 /\ UNCHANGED <<sendErr, buf, tmpSeq, isActive>>
            ELSE /\ Return(t, "failed to send DTLS message")
                 /\ isActive' = FALSE
  /\ UNCHANGED <<areaLights, sequenceNum, connOpen, serverVars, colors,
                 nSends, outbox, kLast, statusVars, encVars, inMsg, lifeVars, sinceSend, envVars, effVars>>

\* _, err := s.conn.Write(buf.Bytes()): the write fails on a closed
\* connection and may fail on an open one; on failure SendColors returns
\* the error and touches no field of the stream
SendWrite(t) ==
  /\ pc[t] = "write"
  /\ \E ok \in (IF connOpen THEN BOOLEAN ELSE {FALSE}) :
       /\ wire' = [by |-> t, buf |-> buf[t], ok |-> ok]
       /\ IF ok
            THEN /\ pc' = [pc EXCEPT ![t] = "load"]
                 /\ UNCHANGED <<sendErr, buf, tmpSeq>>
            ELSE Return(t, "failed to send DTLS message")
  /\ UNCHANGED <<streamVars, serverVars, colors,
                 nSends, outbox, kLast, statusVars, encVars, inMsg, lifeVars, sinceSend, envVars, effVars>>

\* s.sequenceNum++ : the load half of the unsynchronised read-modify-write
SendLoad(t) ==
  /\ pc[t] = "load"
  /\ tmpSeq' = [tmpSeq EXCEPT ![t] = sequenceNum]
  /\ pc' = [pc EXCEPT ![t] = "store"]
  /\ UNCHANGED <<streamVars, wire, serverVars, colors, buf, sendErr,
                 nSends, outbox, kLast, statusVars, encVars, inMsg, lifeVars, sinceSend, envVars, effVars>>

\* s.sequenceNum++ : the store half (uint8 arithmetic); return nil
SendStore(t) ==
  /\ pc[t] = "store"
  /\ sequenceNum' = (tmpSeq[t] + 1) % 256
  /\ Return(t, NoError)
  /\ UNCHANGED <<areaLights, isActive, connOpen, wire, serverVars, colors,
                 nSends, outbox, kLast, statusVars, encVars, inMsg, lifeVars, sinceSend, envVars, effVars>>

SendColors(t) ==
  SendCheck(t) \/ SendBuild(t) \/ SendWrite(t) \/ SendLoad(t) \/ SendStore(t)

\* ---------------------------------------------- WebSocketServer.handleWebSocket
\* the fixture list of the served area: "5", "6"
ServerLights == << <<"5">>, <<"6">> >>

\* a raw JSON channel triple of a producer message
Raw(r, g, b) == [r |-> r, g |-> g, b |-> b]

\* the "lights" objects producers send:
\*   {"5": {255,0,0}}, {} and {"5": {256,0,0}}
ProducerMsgs ==
  { [id \in { <<"5">> } |-> Raw(255, 0, 0)],
    [id \in {} |-> Raw(0, 0, 0)],
    [id \in { <<"5">> } |-> Raw(256, 0, 0)] }

\* mutant: every number decodes
decodableAny(lights) == TRUE

\* conn.ReadJSON(&msg) decodes into uint8 fields: a number outside 0..255
\* is an unmarshal error
decodable(lights) ==
  \A id \in DOMAIN lights :
    lights[id].r \in 0..255 /\ lights[id].g \in 0..255 /\ lights[id].b \in 0..255

\* colors[lightID] = RGB{R: color.R, G: color.G, B: color.B}
toColors(lights) ==
  [id \in DOMAIN lights |-> RGB(lights[id].r, lights[id].g, lights[id].b)]

\* s.mutex.Lock() at the site that leads to position `held`; the sites
\* after SendColors are reached only when it returned nil
Lock(t, at, held) ==
  /\ pc[t] = at
  /\ at = "ret" => sendErr[t] = NoError
  /\ mutex = NoTask
  /\ mutex' = t
  /\ pc' = [pc EXCEPT ![t] = held]
  /\ UNCHANGED <<streamVars, wire, isStreaming, stopClosed, lastColors, lastMessageTime,
                 activated, sendVars, nSends, outbox, kLast, statusVars, encVars, inMsg, lifeVars, sinceSend, envVars, effVars>>

\* a request for /ws arrives while ListenAndServe accepts connections and
\* upgrader.Upgrade succeeds: the connection is open (closed by the deferred
\* conn.Close() when the handler returns)
Upgrade(p) ==
  /\ pc[p] = "idle"
  /\ pc[Main] = "serving"
  /\ pc' = [pc EXCEPT ![p] = "markLock"]
  /\ UNCHANGED <<streamVars, wire, serverVars, sendVars,
                 nSends, outbox, kLast, statusVars, encVars, inMsg, lifeVars, sinceSend, envVars, effVars>>

\* upgrader.Upgrade fails: the handler returns at once
UpgradeFail(p) ==
  /\ pc[p] = "idle"
  /\ pc[Main] = "serving"
  /\ pc' = [pc EXCEPT ![p] = "rejected"]
  /\ UNCHANGED <<streamVars, wire, serverVars, sendVars,
                 nSends, outbox, kLast, statusVars, encVars, inMsg, lifeVars, sinceSend, envVars, effVars>>

\* s.mutex.Lock(); s.isStreaming = true; s.mutex.Unlock()
MarkStreaming(p) ==
  /\ pc[p] = "mark"
  /\ isStreaming' = TRUE
  /\ mutex' = NoTask
  /\ pc' = [pc EXCEPT ![p] = "read"]
  /\ UNCHANGED <<streamVars, wire, stopClosed, lastColors, lastMessageTime, activated,
                 sendVars, nSends, outbox, kLast, statusVars, encVars, inMsg, lifeVars, sinceSend, envVars, effVars>>

\* conn.ReadJSON(&msg) returns a message; it is converted to an RGB map
ReadJSON(p, lights) ==
  /\ pc[p] = "read"
  /\ nSends < MaxSends
  /\ decodable(lights)
  /\ nSends' = nSends + 1
  /\ colors' = [colors EXCEPT ![p] = toColors(lights)]
  /\ pc' = [pc EXCEPT ![p] = "send"]
  /\ UNCHANGED <<streamVars, wire, serverVars, buf, tmpSeq, sendErr,
                 outbox, kLast, statusVars, encVars, inMsg, lifeVars, sinceSend, envVars, effVars>>

\* mutant: a read error also closes the shared stream
ReadErrorClosesStream(p) ==
  /\ pc[p] = "read"
  /\ pc' = [pc EXCEPT ![p] = "unmarkLock"]
  /\ isActive' = FALSE
  /\ connOpen' = FALSE
  /\ UNCHANGED <<areaLights, sequenceNum, wire, serverVars, sendVars,
                 nSends, outbox, kLast, statusVars, encVars, inMsg, lifeVars, sinceSend, envVars, effVars>>

\* conn.ReadJSON(&msg) returns an error (the peer closed, or the message
\* does not decode): break
ReadError(p) ==
  /\ pc[p] = "read"
  /\ pc' = [pc EXCEPT ![p] = "unmarkLock"]
  /\ UNCHANGED <<streamVars, wire, serverVars, sendVars,
                 nSends, outbox, kLast, statusVars, encVars, inMsg, lifeVars, sinceSend, envVars, effVars>>

\* a message that does not decode is such a read error
ReadUndecodable(p, lights) ==
  /\ pc[p] = "read"
  /\ ~decodable(lights)
  /\ pc' = [pc EXCEPT ![p] = "unmarkLock"]
  /\ UNCHANGED <<streamVars, wire, serverVars, sendVars,
                 nSends, outbox, kLast, statusVars, encVars, inMsg, lifeVars, sinceSend, envVars, effVars>>

\* mutant: the failing producer also closes the shared stream
ForwardFailedClosesStream(p) ==
  /\ pc[p] = "ret"
  /\ sendErr[p] # NoError
  /\ outbox' = [outbox EXCEPT ![p] = Append(@, [error |-> sendErr[p]])]
  /\ pc' = [pc EXCEPT ![p] = "unmarkLock"]
  /\ colors' = [colors EXCEPT ![p] = EmptyColors]
  /\ sendErr' = [sendErr EXCEPT ![p] = NoError]
  /\ isActive' = FALSE
  /\ connOpen' = FALSE
  /\ UNCHANGED <<areaLights, sequenceNum, wire, serverVars, buf, tmpSeq,
                 nSends, kLast, statusVars, encVars, inMsg, lifeVars, sinceSend, envVars, effVars>>

\* mutant: after the error object the loop goes on reading
ForwardFailedContinues(p) ==
  /\ pc[p] = "ret"
  /\ sendErr[p] # NoError
  /\ outbox' = [outbox EXCEPT ![p] = Append(@, [error |-> sendErr[p]])]
  /\ pc' = [pc EXCEPT ![p] = "read"]
  /\ colors' = [colors EXCEPT ![p] = EmptyColors]
  /\ sendErr' = [sendErr EXCEPT ![p] = NoError]
  /\ UNCHANGED <<streamVars, wire, serverVars, buf, tmpSeq,
                 nSends, kLast, statusVars, encVars, inMsg, lifeVars, sinceSend, envVars, effVars>>

\* mutant: the failed frame is stored as the last forwarded one
ForwardFailedUpdatesLast(p) ==
  /\ pc[p] = "ret"
  /\ sendErr[p] # NoError
  /\ outbox' = [outbox EXCEPT ![p] = Append(@, [error |-> sendErr[p]])]
  /\ pc' = [pc EXCEPT ![p] = "unmarkLock"]
  /\ colors' = [colors EXCEPT ![p] = EmptyColors]
  /\ sendErr' = [sendErr EXCEPT ![p] = NoError]
  /\ lastColors' = colors[p]
  /\ UNCHANGED <<streamVars, wire, isStreaming, mutex, stopClosed, lastMessageTime,
                 activated, buf, tmpSeq, nSends, kLast, statusVars, encVars, inMsg,
                 lifeVars, sinceSend, envVars, effVars>>

\* SendColors returned an error: conn.WriteJSON({"error": err.Error()}); break
ForwardFailed(p) ==
  /\ pc[p] = "ret"
  /\ sendErr[p] # NoError
  /\ outbox' = [outbox EXCEPT ![p] = Append(@, [error |-> sendErr[p]])]
  /\ pc' = [pc EXCEPT ![p] = "unmarkLock"]
  /\ colors' = [colors EXCEPT ![p] = EmptyColors]
  /\ sendErr' = [sendErr EXCEPT ![p] = NoError]
  /\ UNCHANGED <<streamVars, wire, serverVars, buf, tmpSeq,
                 nSends, kLast, statusVars, encVars, inMsg, lifeVars, sinceSend, envVars, effVars>>

\* mutant: the handler goes back to reading without releasing the lock
UpdateLastKeepsLock(p) ==
  /\ pc[p] = "update"
  /\ \E now \in lastMessageTime..MaxTime : lastMessageTime' = now
  /\ lastColors' = colors[p]
  /\ pc' = [pc EXCEPT ![p] = "read"]
  /\ colors' = [colors EXCEPT ![p] = EmptyColors]
  /\ UNCHANGED <<streamVars, wire, isStreaming, mutex, stopClosed, activated,
                 buf, tmpSeq, sendErr, nSends, outbox, kLast, statusVars, encVars, inMsg,
                 lifeVars, sinceSend, envVars, effVars>>

\* mutant: after the update the handler sends the same frame once more
UpdateLastResends(p) ==
  /\ pc[p] = "update"
  /\ \E now \in lastMessageTime..MaxTime : lastMessageTime' = now
  /\ lastColors' = colors[p]
  /\ mutex' = NoTask
  /\ pc' = [pc EXCEPT ![p] = "send"]
  /\ UNCHANGED <<streamVars, wire, isStreaming, stopClosed, activated, colors,
                 buf, tmpSeq, sendErr, nSends, outbox, kLast, statusVars, encVars, inMsg,
                 lifeVars, sinceSend, envVars, effVars>>

\* s.lastMessageTime = time.Now(); s.lastColors = colors; s.mutex.Unlock()
UpdateLast(p) ==
  /\ pc[p] = "update"
  /\ \E now \in lastMessageTime..MaxTime : lastMessageTime' = now
  /\ lastColors' = colors[p]
  /\ mutex' = NoTask
  /\ pc' = [pc EXCEPT ![p] = "read"]
  /\ colors' = [colors EXCEPT ![p] = EmptyColors]
  /\ UNCHANGED <<streamVars, wire, isStreaming, stopClosed, activated,
                 buf, tmpSeq, sendErr, nSends, outbox, kLast, statusVars, encVars, inMsg, lifeVars, sinceSend, envVars, effVars>>

\* after the loop: s.isStreaming = false; s.mutex.Unlock(); the deferred
\* conn.Close() runs as the handler returns
UnmarkStreaming(p) ==
  /\ pc[p] = "unmark"
  /\ isStreaming' = FALSE
  /\ mutex' = NoTask
  /\ pc' = [pc EXCEPT ![p] = "closed"]
  /\ UNCHANGED <<streamVars, wire, stopClosed, lastColors, lastMessageTime, activated,
                 sendVars, nSends, outbox, kLast, statusVars, encVars, inMsg, lifeVars, sinceSend, envVars, effVars>>

handleWebSocket(p) ==
  \/ Upgrade(p)
  \/ UpgradeFail(p)
  \/ Lock(p, "markLock", "mark")
  \/ MarkStreaming(p)
  \/ \E lights \in ProducerMsgs : ReadJSON(p, lights)
  \/ \E lights \in ProducerMsgs : ReadUndecodable(p, lights)
  \/ ReadError(p)
  \/ SendColors(p)
  \/ ForwardFailed(p)
  \/ Lock(p, "ret", "update")
  \/ UpdateLast(p)
  \/ Lock(p, "unmarkLock", "unmark")
  \/ UnmarkStreaming(p)

\* -------------------------------------------------- WebSocketServer.keepAlive
\* ticker := time.NewTicker(5 * time.Second): seconds between two ticks
keepAliveInterval == 5

\* the bridge closes the connection after 10 seconds of inactivity
bridgeIdleTimeout == 10

\* colors[lightID] = RGB{0,0,0} for every light of the area
blackColors(lights) ==
  [id \in { lights[i] : i \in 1..Len(lights) } |-> RGB(0, 0, 0)]

\* mutant: the last colours are resent even when there are none
keepAliveColorsLastOnly(last) == last

\* if len(lastColors) > 0 { colors = lastColors } else { all black }
keepAliveColors(last) ==
  IF Cardinality(DOMAIN last) > 0 THEN last ELSE blackColors(areaLights)

\* case <-ticker.C: one more period of the ticker has passed, a tick is
\* ready and select takes it (s.dtlsStream is set before the task starts and
\* never reset, so the nil check passes)
KeeperTick ==
  /\ pc[Keeper] = "select"
  /\ nSends < MaxSends
  /\ nSends' = nSends + 1
  /\ sinceSend' = sinceSend + 1
  /\ pc' = [pc EXCEPT ![Keeper] = "tickLock"]
  /\ UNCHANGED <<streamVars, wire, serverVars, sendVars,
                 outbox, kLast, statusVars, encVars, inMsg, lifeVars, envVars, effVars>>

\* mutant: while a producer is connected the tick sends nothing
KeeperReadLastIdleOnly ==
  /\ pc[Keeper] = "tick"
  /\ kLast' = IF isStreaming THEN EmptyColors ELSE lastColors
  /\ colors' = [colors EXCEPT ![Keeper] =
                  IF isStreaming THEN EmptyColors ELSE keepAliveColors(lastColors)]
  /\ mutex' = NoTask
  /\ pc' = [pc EXCEPT ![Keeper] = IF isStreaming THEN "select" ELSE "send"]
  /\ UNCHANGED <<streamVars, wire, isStreaming, stopClosed, lastColors, lastMessageTime,
                 activated, buf, tmpSeq, sendErr, nSends, outbox, statusVars, encVars, inMsg,
                 lifeVars, sinceSend, envVars, effVars>>

\* lastColors := s.lastColors; s.mutex.Unlock(); choose the colours to send
KeeperReadLast ==
  /\ pc[Keeper] = "tick"
  /\ kLast' = lastColors
  /\ colors' = [colors EXCEPT ![Keeper] = keepAliveColors(lastColors)]
  /\ mutex' = NoTask
  /\ pc' = [pc EXCEPT ![Keeper] = "send"]
  /\ UNCHANGED <<streamVars, wire, isStreaming, stopClosed, lastColors, lastMessageTime,
                 activated, buf, tmpSeq, sendErr, nSends, outbox, statusVars, encVars, inMsg, lifeVars, sinceSend, envVars, effVars>>

\* mutant: a failed send ends the keep-alive task
KeeperFailedStops ==
  /\ pc[Keeper] = "ret"
  /\ sendErr[Keeper] # NoError
  /\ pc' = [pc EXCEPT ![Keeper] = "stopped"]
  /\ colors' = [colors EXCEPT ![Keeper] = EmptyColors]
  /\ sendErr' = [sendErr EXCEPT ![Keeper] = NoError]
  /\ kLast' = EmptyColors
  /\ UNCHANGED <<streamVars, wire, serverVars, buf, tmpSeq,
                 nSends, outbox, statusVars, encVars, inMsg, lifeVars, sinceSend, envVars, effVars>>

\* SendColors returned an error: it is printed and the loop goes on
KeeperFailed ==
  /\ pc[Keeper] = "ret"
  /\ sendErr[Keeper] # NoError
  /\ pc' = [pc EXCEPT ![Keeper] = "select"]
  /\ colors' = [colors EXCEPT ![Keeper] = EmptyColors]
  /\ sendErr' = [sendErr EXCEPT ![Keeper] = NoError]
  /\ kLast' = EmptyColors
  /\ UNCHANGED <<streamVars, wire, serverVars, buf, tmpSeq,
                 nSends, outbox, statusVars, encVars, inMsg, lifeVars, sinceSend, envVars, effVars>>

\* mutant: the tick also stores the colours it sent as the last frame
KeeperTouchStoresColors ==
  /\ pc[Keeper] = "touch"
  /\ \E now \in lastMessageTime..MaxTime : lastMessageTime' = now
  /\ lastColors' = colors[Keeper]
  /\ mutex' = NoTask
  /\ pc' = [pc EXCEPT ![Keeper] = "select"]
  /\ colors' = [colors EXCEPT ![Keeper] = EmptyColors]
  /\ kLast' = EmptyColors
  /\ UNCHANGED <<streamVars, wire, isStreaming, stopClosed, activated,
                 buf, tmpSeq, sendErr, nSends, outbox, statusVars, encVars, inMsg,
                 lifeVars, sinceSend, envVars, effVars>>

\* s.lastMessageTime = time.Now(); s.mutex.Unlock()
KeeperTouch ==
  /\ pc[Keeper] = "touch"
  /\ \E now \in lastMessageTime..MaxTime : lastMessageTime' = now
  /\ mutex' = NoTask
  /\ pc' = [pc EXCEPT ![Keeper] = "select"]
  /\ colors' = [colors EXCEPT ![Keeper] = EmptyColors]
  /\ kLast' = EmptyColors
  /\ UNCHANGED <<streamVars, wire, isStreaming, stopClosed, lastColors, activated,
                 buf, tmpSeq, sendErr, nSends, outbox, statusVars, encVars, inMsg, lifeVars, sinceSend, envVars, effVars>>

\* mutant: select takes the stop branch although stopChan is open
KeeperStopUnguarded ==
  /\ pc[Keeper] = "select"
  /\ pc' = [pc EXCEPT ![Keeper] = "stopped"]
  /\ UNCHANGED <<streamVars, wire, serverVars, sendVars,
                 nSends, outbox, kLast, statusVars, encVars, inMsg, lifeVars, sinceSend, envVars, effVars>>

\* case <-s.stopChan: return
KeeperStop ==
  /\ pc[Keeper] = "select"
  /\ stopClosed
  /\ pc' = [pc EXCEPT ![Keeper] = "stopped"]
  /\ UNCHANGED <<streamVars, wire, serverVars, sendVars,
                 nSends, outbox, kLast, statusVars, encVars, inMsg, lifeVars, sinceSend, envVars, effVars>>

keepAlive ==
  \/ KeeperTick
  \/ Lock(Keeper, "tickLock", "tick")
  \/ KeeperReadLast
  \/ SendColors(Keeper)
  \/ KeeperFailed
  \/ Lock(Keeper, "ret", "touch")
  \/ KeeperTouch
  \/ KeeperStop

\* ---------------------------------------------------- WebSocketServer.cleanup
\* ListenAndServe returned an error; cleanup: close(s.stopChan)
CloseStopChan ==
  /\ pc[Main] = "serving"
  /\ stopClosed' = TRUE
  /\ pc' = [pc EXCEPT ![Main] = "closeStream"]
  /\ UNCHANGED <<streamVars, wire, isStreaming, mutex, lastColors, lastMessageTime,
                 activated, sendVars, nSends, outbox, kLast, statusVars, encVars, inMsg, lifeVars, sinceSend, envVars, effVars>>

\* DTLSStream.Close: s.isActive = false
CloseMarkInactive ==
  /\ pc[Main] = "closeStream"
  /\ isActive' = FALSE
  /\ pc' = [pc EXCEPT ![Main] = "closeConn"]
  /\ UNCHANGED <<areaLights, sequenceNum, connOpen, wire, serverVars, sendVars,
                 nSends, outbox, kLast, statusVars, encVars, inMsg, lifeVars, sinceSend, envVars, effVars>>

\* DTLSStream.Close: s.conn.Close(); Close returns
CloseConn ==
  /\ pc[Main] = "closeConn"
  /\ connOpen' = FALSE
  /\ nCloses' = nCloses + 1
  /\ pc' = [pc EXCEPT ![Main] = "deactivate"]
  /\ UNCHANGED <<areaLights, sequenceNum, isActive, wire, serverVars, sendVars,
                 nSends, outbox, kLast, statusVars, encVars, inMsg,
                 openAttempts, startErr, sinceSend, envVars, effVars>>

\* deactivateStreaming(areaID): the PUT with stream.active = false. The
\* call fails when the bridge configuration cannot be loaded or the request
\* cannot be sent, and the session then stays as it was; every caller drops
\* the returned error
deactivateStreaming ==
  /\ nDeactivates' = nDeactivates + 1
  /\ \E ok \in BOOLEAN :
       IF ok THEN activated' = FALSE /\ priorStream' = FALSE
             ELSE UNCHANGED <<activated, priorStream>>

\* mutant: cleanup returns without the deactivateStreaming call
DeactivateOmitted ==
  /\ pc[Main] = "deactivate"
  /\ startErr' = ListenError
  /\ pc' = [pc EXCEPT ![Main] = "returned"]
  /\ UNCHANGED <<streamVars, wire, serverVars, sendVars, nSends, outbox,
                 kLast, statusVars, encVars, inMsg, openAttempts, nCloses,
                 sinceSend, envVars, effVars>>

\* deactivateStreaming(s.area.ID); cleanup returns and StartWebSocketServer
\* returns the error of ListenAndServe
Deactivate ==
  /\ pc[Main] = "deactivate"
  /\ deactivateStreaming
  /\ startErr' = ListenError
  /\ pc' = [pc EXCEPT ![Main] = "returned"]
  /\ UNCHANGED <<streamVars, wire, isStreaming, mutex, stopClosed, lastColors,
                 lastMessageTime, sendVars, nSends, outbox, kLast, statusVars,
                 encVars, inMsg, openAttempts, nCloses, sinceSend, clientKey,
                 effVars>>

cleanup == CloseStopChan \/ CloseMarkInactive \/ CloseConn \/ Deactivate

\* ----------------------------------------------- WebSocketServer.handleStatus
areaName == "Room"

port == 8080

\* GET /status: s.mutex.Lock()
StatusLock ==
  /\ statusPc = "idle"
  /\ mutex = NoTask
  /\ mutex' = "status"
  /\ statusPc' = "locked"
  /\ UNCHANGED <<statusResp, statusIsStreaming>>
  /\ UNCHANGED <<streamVars, wire, isStreaming, stopClosed, lastColors,
                 lastMessageTime, activated, sendVars, pc, nSends, outbox,
                 kLast, encVars, inMsg, lifeVars, sinceSend, envVars, effVars>>

\* mutant: the handler reads the flag and goes on without releasing the lock
StatusReadKeepsLock ==
  /\ statusPc = "locked"
  /\ statusIsStreaming' = isStreaming
  /\ statusPc' = "respond"
  /\ UNCHANGED statusResp
  /\ UNCHANGED <<streamVars, wire, serverVars, sendVars, pc, nSends, outbox,
                 kLast, encVars, inMsg, lifeVars, sinceSend, envVars, effVars>>

\* isStreaming := s.isStreaming; s.mutex.Unlock()
StatusRead ==
  /\ statusPc = "locked"
  /\ statusIsStreaming' = isStreaming
  /\ mutex' = NoTask
  /\ statusPc' = "respond"
  /\ UNCHANGED statusResp
  /\ UNCHANGED <<streamVars, wire, isStreaming, stopClosed, lastColors,
                 lastMessageTime, activated, sendVars, pc, nSends, outbox,
                 kLast, encVars, inMsg, lifeVars, sinceSend, envVars, effVars>>

\* json.NewEncoder(w).Encode(...): the response is written after the lock
\* is released, from the local copy of the flag
StatusRespond ==
  /\ statusPc = "respond"
  /\ statusResp' = [code |-> 200, streaming |-> statusIsStreaming,
                    area |-> areaName, lights |-> areaLights, port |-> port]
  /\ statusPc' = "idle"
  /\ UNCHANGED statusIsStreaming
  /\ UNCHANGED <<streamVars, wire, serverVars, sendVars, pc, nSends, outbox,
                 kLast, encVars, inMsg, lifeVars, sinceSend, envVars, effVars>>

\* GET /status
StatusGet == StatusLock \/ StatusRead \/ StatusRespond

\* OPTIONS /status: 200 with no body, before the lock is taken
StatusOptions ==
  /\ statusPc = "idle"
  /\ statusResp' = [code |-> 200]
  /\ UNCHANGED <<statusPc, statusIsStreaming>>
  /\ UNCHANGED <<streamVars, wire, serverVars, sendVars, pc, nSends, outbox,
                 kLast, encVars, inMsg, lifeVars, sinceSend, envVars, effVars>>

handleStatus == StatusGet \/ StatusOptions

\* ------------------------------------------------------ server specification
Init ==
  /\ InitWith(ServerLights, 0)
  /\ encColors = EmptyColors
  /\ inMsg = <<>>

\* the producer handlers, the keep-alive task and the shutdown path
Next ==
  \/ \E p \in Producers : handleWebSocket(p)
  \/ keepAlive
  \/ cleanup

Spec == Init /\ [][Next]_vars

\* the producer handlers and the status handler (which reads isStreaming
\* and writes nothing the other tasks read)
NextStatus ==
  \/ \E p \in Producers : handleWebSocket(p)
  \/ handleStatus

SpecStatus == Init /\ [][NextStatus]_vars

\* ------------------------------------------------- session and bridge: claims
\* the sequence-number byte of a frame
SeqOf(frame) == frame[12]

\* task t hands its frame to conn.Write in this step
WriteStep(t) == pc[t] = "write" /\ pc'[t] # "write"

\* task t enters SendColors in this step
SendCallStep(t) == pc[t] = "send" /\ pc'[t] # "send"

\* producer p is inside the for loop of handleWebSocket
InReadLoop(p) ==
  pc[p] \in {"read", "send", "build", "write", "load", "store", "ret", "update"}

\* no producer is between connecting or leaving its loop and the write of
\* isStreaming that follows
Settled ==
  \A p \in Producers : pc[p] \notin {"markLock", "mark", "unmarkLock", "unmark"}

\* C5: on one Session the sequence number carried by consecutive send calls
\* increases by exactly 1 modulo 256: once a frame has gone out, the next
\* frame handed to the transport carries its sequence number plus one
C5_SequenceAdvances ==
  [][\A t \in Senders :
       (WriteStep(t) /\ wire.buf # <<>> /\ wire.ok)
         => SeqOf(wire'.buf) = (SeqOf(wire.buf) + 1) % 256]_vars

\* C6: the status query reports streaming = true exactly while a producer
\* is in its read loop, for every interleaving of connects and disconnects
\* (the flag a GET /status reports is the one it reads under the lock)
C6_StatusReflectsProducers ==
  [][(statusPc = "locked" /\ statusPc' = "respond" /\ Settled)
       => (statusIsStreaming' <=> \E p \in Producers : InReadLoop(p))]_vars

\* producer p is being dropped after a forwarding error, and moves
DropStep(p) ==
  /\ pc'[p] # pc[p]
  /\ \/ pc[p] = "ret" /\ sendErr[p] # NoError
     \/ pc[p] \in {"unmarkLock", "unmark"} /\ outbox[p] # <<>>

\* C7: dropping a producer after a forwarding error leaves the Session, the
\* other producers and the keep-alive task as they are: no step of the drop
\* changes the Session or another task, and whenever a producer has been
\* dropped and no shutdown has begun the Session is active with its
\* transport open
C7_DropIsolated ==
  [][/\ \A p \in Producers :
          DropStep(p) =>
            /\ isActive' = isActive /\ connOpen' = connOpen
            /\ sequenceNum' = sequenceNum
            /\ \A t \in Senders \ {p} :
                 /\ pc'[t] = pc[t] /\ colors'[t] = colors[t]
                 /\ buf'[t] = buf[t] /\ sendErr'[t] = sendErr[t]
     /\ ((\E p \in Producers : pc'[p] = "closed" /\ outbox'[p] # <<>>)
           /\ pc'[Main] = "serving") => (isActive' /\ connOpen')]_vars

\* p1 was dropped after its write failed, and after that write p2's frame
\* went out and p2 is back in its read loop
C7_Witness ==
  /\ pc["p1"] = "closed"
  /\ outbox["p1"] = << [error |-> "failed to send DTLS message"] >>
  /\ wire.by = "p2" /\ wire.ok
  /\ pc["p2"] = "read"
  /\ lastColors = [id \in { <<"5">> } |-> RGB(255, 0, 0)]

\* C8: after cleanup has run the Session is closed and the keep-alive task
\* makes no further SendColors call, also when a tick was in progress
C8_NoSendAfterCleanup ==
  [][pc[Main] = "returned"
       => /\ ~isActive /\ ~connOpen
          /\ ~SendCallStep(Keeper)]_vars

\* C9: a keep-alive tick that finds no forwarded colours sends a colour
\* map that holds every fixture of the area with colour (0,0,0)
C9_BlackKeepAlive ==
  (pc[Keeper] \in {"send", "build", "write", "load", "store"} /\ DOMAIN kLast = {})
    => /\ DOMAIN colors[Keeper] = LightSet(areaLights)
       /\ \A id \in DOMAIN colors[Keeper] : colors[Keeper][id] = RGB(0, 0, 0)

\* no producer ever connected; the keep-alive frame went out, all black
C9_Witness ==
  /\ \A p \in Producers : pc[p] = "idle"
  /\ pc[Keeper] = "load"
  /\ lastColors = EmptyColors
  /\ DOMAIN colors[Keeper] = { <<"5">>, <<"6">> }
  /\ wire.by = Keeper /\ wire.ok
  /\ SubSeq(wire.buf, 17, 34) = <<0, 0, 5, 0, 0, 0, 0, 0, 0, 0, 0, 6, 0, 0, 0, 0, 0, 0>>

\* the write of task t fails in this step
WriteFailStep(t) == pc[t] = "write" /\ pc'[t] = "ret"

\* C10 as claimed: a failed transport write marks the Session inactive and
\* returns an error, so a send entered after a failed write returns an
\* error without writing
C10_WriteFailureDeactivates ==
  [][\A t \in Senders :
       /\ WriteFailStep(t) => (sendErr'[t] # NoError /\ ~isActive')
       /\ (SendCallStep(t) /\ wire.buf # <<>> /\ ~wire.ok) => pc'[t] = "ret"]_vars

\* C10 as amended: a failed transport write returns an error and leaves the
\* Session as it was (activity flag, transport, sequence number); nothing
\* ever re-activates or reconnects the Session
C10_WriteFailureLeavesSession ==
  [][/\ isActive' => isActive
     /\ connOpen' => connOpen
     /\ \A t \in Senders :
          WriteFailStep(t) =>
            /\ sendErr'[t] = "failed to send DTLS message"
            /\ isActive' = isActive /\ connOpen' = connOpen
            /\ sequenceNum' = sequenceNum]_vars

\* p1's write failed and SendColors returned the error; after that write the
\* keep-alive frame went out on the same, still active Session
C10_Witness ==
  /\ pc["p1"] = "ret"
  /\ sendErr["p1"] = "failed to send DTLS message"
  /\ wire.by = Keeper /\ wire.ok
  /\ isActive /\ connOpen

\* ------------------------------------------------------- DTLSStream.Close
\* mutant: Close flips the activity flag
CloseFlagToggles ==
  /\ pc[Main] = "serving"
  /\ nCloses < MaxCloses
  /\ isActive' = ~isActive
  /\ pc' = [pc EXCEPT ![Main] = "closing"]
  /\ UNCHANGED <<areaLights, sequenceNum, connOpen, wire, serverVars, sendVars,
                 nSends, outbox, kLast, statusVars, encVars, inMsg, lifeVars,
                 sinceSend, envVars, effVars>>

\* a call of Close by the owner of the stream: s.isActive = false (the
\* field is written without any lock, so a task sending on the stream can
\* run between this statement and the next)
CloseFlag ==
  /\ pc[Main] = "serving"
  /\ nCloses < MaxCloses
  /\ isActive' = FALSE
  /\ pc' = [pc EXCEPT ![Main] = "closing"]
  /\ UNCHANGED <<areaLights, sequenceNum, connOpen, wire, serverVars, sendVars,
                 nSends, outbox, kLast, statusVars, encVars, inMsg, lifeVars,
                 sinceSend, envVars, effVars>>

\* if s.conn != nil { return s.conn.Close() }; Close returns
CloseRelease ==
  /\ pc[Main] = "closing"
  /\ connOpen' = FALSE
  /\ nCloses' = nCloses + 1
  /\ pc' = [pc EXCEPT ![Main] = "serving"]
  /\ UNCHANGED <<areaLights, sequenceNum, isActive, wire, serverVars, sendVars,
                 nSends, outbox, kLast, statusVars, encVars, inMsg,
                 openAttempts, startErr, sinceSend, envVars, effVars>>

\* DTLSStream.Close
Close == CloseFlag \/ CloseRelease

\* a stream as createDTLSStreamConnection builds it, at any point of its
\* sequence counter, used by the keep-alive task
InitClose ==
  /\ \E lights \in ListsUpTo(LightIDs, MaxLights), seq \in SeqSamples : InitWith(lights, seq)
  /\ encColors = EmptyColors
  /\ inMsg = <<>>

\* the owner closes the stream, again and again, while the keep-alive task
\* goes on sending
NextClose ==
  \/ Close
  \/ KeeperTick
  \/ Lock(Keeper, "tickLock", "tick")
  \/ KeeperReadLast
  \/ SendColors(Keeper)
  \/ KeeperFailed
  \/ Lock(Keeper, "ret", "touch")
  \/ KeeperTouch

SpecClose == InitClose /\ [][NextClose]_vars

\* C11: after one Close the stream is inactive and its transport released,
\* and every further Close leaves the stream exactly as it was: no step
\* of it changes the activity flag, the transport, the sequence counter or
\* the fixture list, and nothing activates the stream again
C11_CloseIdempotent ==
  [][/\ nCloses' >= 1 => (~isActive' /\ ~connOpen')
     /\ (nCloses >= 1 /\ pc'[Main] # pc[Main])
          => /\ isActive' = isActive /\ connOpen' = connOpen
             /\ sequenceNum' = sequenceNum /\ areaLights' = areaLights]_vars

\* the stream was closed three times after a frame had gone out, and a
\* keep-alive send entered after that was refused
C11_Witness ==
  /\ nCloses = 3
  /\ ~isActive /\ ~connOpen
  /\ sequenceNum = 0 /\ wire.ok /\ SeqOf(wire.buf) = 255
  /\ pc[Keeper] = "ret" /\ sendErr[Keeper] = "stream not active"

\* ------------------------------------------------------ StartWebSocketServer
\* the state at the entry of StartWebSocketServer: the server struct is
\* built, no stream exists yet, no task has been started
InitStart ==
  /\ areaLights = ServerLights
  /\ sequenceNum = 0
  /\ isActive = FALSE
  /\ connOpen = FALSE
  /\ wire = [by |-> NoTask, buf |-> <<>>, ok |-> FALSE]
  /\ isStreaming = FALSE
  /\ mutex = NoTask
  /\ stopClosed = FALSE
  /\ lastColors = EmptyColors
  /\ lastMessageTime = 0
  /\ activated = FALSE
  /\ pc = [t \in Senders \cup {Main} |->
            IF t \in Producers THEN "idle" ELSE IF t = Keeper THEN "unstarted" ELSE "activate"]
  /\ colors = [t \in Senders |-> EmptyColors]
  /\ buf = [t \in Senders |-> <<>>]
  /\ tmpSeq = [t \in Senders |-> 0]
  /\ sendErr = [t \in Senders |-> NoError]
  /\ nSends = 0
  /\ outbox = [p \in Producers |-> <<>>]
  /\ kLast = EmptyColors
  /\ statusResp = [code |-> 0]
  /\ statusPc = "idle"
  /\ statusIsStreaming = FALSE
  /\ encColors = EmptyColors
  /\ encBuf = <<>>
  /\ inMsg = <<>>
  /\ openAttempts = 0
  /\ startErr = NoError
  /\ nCloses = 0
  /\ sinceSend = 0
  /\ clientKey \in BOOLEAN
  /\ priorStream \in BOOLEAN
  /\ nDeactivates = 0
  /\ NoEffect

\* if err := activateStreaming(area.ID); err != nil { return ... }
Activate ==
  /\ pc[Main] = "activate"
  /\ \E ok \in BOOLEAN :
       IF ok
         THEN /\ activated' = TRUE
              /\ pc' = [pc EXCEPT ![Main] = "open1"]
              /\ UNCHANGED startErr
         ELSE /\ startErr' = "failed to activate streaming"
              /\ pc' = [pc EXCEPT ![Main] = "failed"]
              /\ UNCHANGED activated
  /\ UNCHANGED <<streamVars, wire, isStreaming, mutex, stopClosed, lastColors,
                 lastMessageTime, sendVars, nSends, outbox, kLast, statusVars,
                 encVars, inMsg, openAttempts, nCloses, sinceSend, envVars, effVars>>

\* dtlsStream, err := createDTLSStreamConnection(area) at the call site `at`:
\* a new stream (sequenceNum 0, isActive true) or an error; with an empty
\* bridgeConfig.ClientKey always the error "no clientkey found"
createDTLSStreamConnection(at, failed) ==
  /\ pc[Main] = at
  /\ openAttempts' = openAttempts + 1
  /\ \E ok \in (IF clientKey THEN BOOLEAN ELSE {FALSE}) :
       IF ok
         THEN /\ isActive' = TRUE
              /\ connOpen' = TRUE
              /\ sequenceNum' = 0
              /\ pc' = [pc EXCEPT ![Main] = "startKeepAlive"]
         ELSE /\ pc' = [pc EXCEPT ![Main] = failed]
              /\ UNCHANGED <<isActive, connOpen, sequenceNum>>
  /\ UNCHANGED <<areaLights, wire, serverVars, sendVars, nSends, outbox, kLast,
                 statusVars, encVars, inMsg, startErr, nCloses, sinceSend, envVars, effVars>>

\* the first attempt failed: deactivateStreaming(area.ID)
RetryDeactivate ==
  /\ pc[Main] = "retryDeactivate"
  /\ deactivateStreaming
  /\ pc' = [pc EXCEPT ![Main] = "sleep"]
  /\ UNCHANGED <<streamVars, wire, isStreaming, mutex, stopClosed, lastColors,
                 lastMessageTime, sendVars, nSends, outbox, kLast, statusVars,
                 encVars, inMsg, lifeVars, sinceSend, clientKey, effVars>>

\* time.Sleep(1000)
Sleep ==
  /\ pc[Main] = "sleep"
  /\ pc' = [pc EXCEPT ![Main] = "open2"]
  /\ UNCHANGED <<streamVars, wire, serverVars, sendVars, nSends, outbox, kLast,
                 statusVars, encVars, inMsg, lifeVars, sinceSend, envVars, effVars>>

\* mutant: after the second failure the path waits and tries again
GiveUpRetries ==
  /\ pc[Main] = "giveUp"
  /\ deactivateStreaming
  /\ pc' = [pc EXCEPT ![Main] = "sleep"]
  /\ UNCHANGED <<streamVars, wire, isStreaming, mutex, stopClosed, lastColors,
                 lastMessageTime, sendVars, nSends, outbox, kLast, statusVars,
                 encVars, inMsg, lifeVars, sinceSend, clientKey, effVars>>

\* the second attempt failed: deactivateStreaming(area.ID);
\* return fmt.Errorf("failed to create DTLS connection: %v", err)
GiveUp ==
  /\ pc[Main] = "giveUp"
  /\ deactivateStreaming
  /\ startErr' = "failed to create DTLS connection"
  /\ pc' = [pc EXCEPT ![Main] = "failed"]
  /\ UNCHANGED <<streamVars, wire, isStreaming, mutex, stopClosed, lastColors,
                 lastMessageTime, sendVars, nSends, outbox, kLast, statusVars,
                 encVars, inMsg, openAttempts, nCloses, sinceSend, clientKey, effVars>>

\* server.dtlsStream = dtlsStream; go server.keepAlive(); ListenAndServe()
StartKeepAlive ==
  /\ pc[Main] = "startKeepAlive"
  /\ pc' = [pc EXCEPT ![Main] = "serving", ![Keeper] = "select"]
  /\ UNCHANGED <<streamVars, wire, serverVars, sendVars, nSends, outbox, kLast,
                 statusVars, encVars, inMsg, lifeVars, sinceSend, envVars, effVars>>

StartWebSocketServer ==
  \/ Activate
  \/ createDTLSStreamConnection("open1", "retryDeactivate")
  \/ RetryDeactivate
  \/ Sleep
  \/ createDTLSStreamConnection("open2", "giveUp")
  \/ GiveUp
  \/ StartKeepAlive

\* the activation path, then the keep-alive task and the shutdown path
NextStart ==
  \/ StartWebSocketServer
  \/ keepAlive
  \/ cleanup

SpecStart == InitStart /\ [][NextStart]_vars

\* C12: the activation path makes at most two open attempts; the second is
\* made only after the first failed, deactivation was signalled and the
\* delay has passed; the path gives up with an error only after the second
\* attempt failed, and never while only one attempt has been made
C12_OneRetry ==
  [][/\ openAttempts' <= 2
     /\ (pc[Main] = "open1" /\ pc'[Main] # "open1")
          => /\ openAttempts' = 1
             /\ pc'[Main] \in {"startKeepAlive", "retryDeactivate"}
     /\ (pc'[Main] = "sleep" /\ pc[Main] # "sleep")
          => (pc[Main] = "retryDeactivate" /\ openAttempts = 1)
     /\ (pc'[Main] = "open2" /\ pc[Main] # "open2") => pc[Main] = "sleep"
     /\ openAttempts' = 2 => (openAttempts = 2 \/ pc[Main] = "open2")
     /\ startErr' = "failed to create DTLS connection"
          => (pc[Main] = "giveUp" /\ openAttempts' = 2
              /\ ~isActive' /\ ~connOpen')]_vars

\* both attempts failed and the path gave up with the error
C12_Witness ==
  /\ pc[Main] = "failed"
  /\ startErr = "failed to create DTLS connection"
  /\ openAttempts = 2
  /\ ~isActive /\ pc[Keeper] = "unstarted"

\* -------------------------------------------- bridge: forwarding and cache
\* C13: a producer whose forward failed in SendColors gets exactly one
\* object {"error": description} and its handler then leaves the loop and
\* closes the connection: nothing more is written to it, and it neither
\* reads nor forwards another message
C13_ErrorThenClose ==
  [][\A p \in Producers :
       /\ Len(outbox'[p]) <= 1
       /\ (pc[p] = "ret" /\ sendErr[p] # NoError /\ pc'[p] # pc[p])
            => /\ outbox'[p] = << [error |-> sendErr[p]] >>
               /\ pc'[p] = "unmarkLock"
       /\ outbox[p] # <<>>
            => /\ outbox'[p] = outbox[p]
               /\ pc[p] \in {"unmarkLock", "unmark", "closed"}
               /\ pc'[p] \in {"unmarkLock", "unmark", "closed"}]_vars

\* p2 forwarded into the stream that shutdown had closed: it was told
\* "stream not active" once and its connection is closed
C13_Witness ==
  /\ pc["p2"] = "closed"
  /\ outbox["p2"] = << [error |-> "stream not active"] >>
  /\ ~isActive
  /\ ~isStreaming

\* C14: the cache of last forwarded colours keeps, for every fixture, the
\* colour of the latest forwarded message that named the fixture: a fixture
\* in the cache stays in it, and its colour changes only when a producer
\* stores a message that names it
C14_CachePerFixture ==
  [][\A id \in DOMAIN lastColors :
       /\ id \in DOMAIN lastColors'
       /\ lastColors'[id] # lastColors[id]
            => \E p \in Producers :
                 /\ pc[p] = "update" /\ pc'[p] = "read"
                 /\ id \in DOMAIN colors[p]
                 /\ lastColors'[id] = colors[p][id]]_vars

\* the three channel words of the i-th fixture in a frame
ChannelsAt(frame, i) == SubSeq(frame, RecordAt(i) + 3, RecordAt(i) + 8)

\* C15: a producer message that names only some fixtures changes only
\* those: in the frame that goes out for it, every fixture the message
\* omits has the channels it had in the frame that went out before
C15_OmittedKeepsColour ==
  [][\A p \in Producers :
       (WriteStep(p) /\ wire.ok /\ wire'.ok)
         => \A i \in 1..Len(areaLights) :
              areaLights[i] \notin DOMAIN colors[p]
                => ChannelsAt(wire'.buf, i) = ChannelsAt(wire.buf, i)]_vars

\* ------------------------------------------------- inbound specification
\* channel triples as the JSON text carries them, in and out of 0..255
RawSamples ==
  { Raw(r, 0, b) : r \in {-1, 0, 255, 256}, b \in {0, 511} }

\* the "lights" objects a peer may send: any of the two fixtures, any triple
InboundMsgs == UNION { [d -> RawSamples] : d \in SUBSET { <<"5">>, <<"6">> } }

\* the server when it starts serving; every peer sends the object drawn
InitInbound ==
  /\ InitWith(ServerLights, 0)
  /\ encColors = EmptyColors
  /\ inMsg \in InboundMsgs

\* handleWebSocket for a peer that keeps its connection open and sends inMsg
handleInbound(p) ==
  \/ Upgrade(p)
  \/ Lock(p, "markLock", "mark")
  \/ MarkStreaming(p)
  \/ ReadJSON(p, inMsg)
  \/ ReadUndecodable(p, inMsg)
  \/ SendColors(p)
  \/ ForwardFailed(p)
  \/ Lock(p, "ret", "update")
  \/ UpdateLast(p)
  \/ Lock(p, "unmarkLock", "unmark")
  \/ UnmarkStreaming(p)

NextInbound == \E p \in Producers : handleInbound(p)

SpecInbound == InitInbound /\ [][NextInbound]_vars

\* a channel value cut to its low 8 bits
Truncate8(v) == v % 256

\* the colour map of a message with every channel cut to 8 bits
truncated(lights) ==
  [id \in DOMAIN lights |->
     RGB(Truncate8(lights[id].r), Truncate8(lights[id].g), Truncate8(lights[id].b))]

\* every channel of the message lies within 0..255
InRange(lights) ==
  \A id \in DOMAIN lights :
    \A v \in {lights[id].r, lights[id].g, lights[id].b} : v >= 0 /\ v <= 255

\* producer p has read a message in this step
ReadStep(p) == pc[p] = "read" /\ pc'[p] # "read"

\* C16 as claimed: every message read is accepted, also one with a channel
\* outside 0..255: its values are cut to 8 bits and it is handed to
\* SendColors, the connection staying open
C16_OutOfRangeAccepted ==
  [][\A p \in Producers :
       ReadStep(p) => (pc'[p] = "send" /\ colors'[p] = truncated(inMsg))]_vars

\* C16 as amended: a message with a channel outside 0..255 does not decode:
\* reading it ends the producer's loop with nothing forwarded and nothing
\* written back; a message within range is handed to SendColors unchanged
C16_OutOfRangeRejected ==
  [][/\ \A p \in Producers :
          ReadStep(p) =>
            IF InRange(inMsg)
              THEN pc'[p] = "send" /\ colors'[p] = toColors(inMsg)
              ELSE /\ pc'[p] = "unmarkLock"
                   /\ UNCHANGED <<streamVars, wire, colors, outbox, lastColors>>
     /\ ~InRange(inMsg) => (wire'.by = NoTask /\ \A p \in Producers : outbox'[p] = <<>>)]_vars

\* the peers send {"5": {"r":256,"g":0,"b":0}}: p1's connection is closed,
\* no frame went out, no error object was written, the stream is untouched
C16_Witness ==
  /\ DOMAIN inMsg = { <<"5">> } /\ inMsg[<<"5">>] = Raw(256, 0, 0)
  /\ pc["p1"] = "closed"
  /\ outbox["p1"] = <<>>
  /\ wire.by = NoTask /\ nSends = 0
  /\ isActive /\ sequenceNum = 0

\* C17: a status query answers with the streaming flag it read under the
\* lock, the area name, the fixture list in the area's order and the
\* configured port, and changes nothing: no step of the query changes the
\* Session, the shared server state or another task, the lock it takes to
\* read the flag is released before it answers, and the flag it read is
\* the server's
C17_StatusSideEffectFree ==
  [][(statusResp' # statusResp \/ statusPc' # statusPc)
       => /\ UNCHANGED <<streamVars, wire, isStreaming, stopClosed, lastColors,
                         lastMessageTime, activated, sendVars, pc, nSends,
                         outbox, kLast>>
          /\ mutex' # mutex => {mutex, mutex'} = {NoTask, "status"}
          /\ statusPc' \in {"idle", "respond"} => mutex' # "status"
          /\ (statusPc = "locked" /\ statusPc' = "respond")
               => statusIsStreaming' = isStreaming
          /\ "streaming" \in DOMAIN statusResp'
               => /\ DOMAIN statusResp' = {"code", "streaming", "area", "lights", "port"}
                  /\ statusResp'.streaming = statusIsStreaming
                  /\ statusResp'.area = areaName
                  /\ statusResp'.lights = areaLights
                  /\ statusResp'.port = port]_vars

\* a query made while p1 is in its read loop and the cache holds a frame
C17_Witness ==
  /\ statusResp = [code |-> 200, streaming |-> TRUE, area |-> "Room",
                   lights |-> << <<"5">>, <<"6">> >>, port |-> 8080]
  /\ statusPc = "idle"
  /\ pc["p1"] = "read" /\ isStreaming /\ mutex = NoTask
  /\ lastColors = [id \in { <<"5">> } |-> RGB(255, 0, 0)]

\* -------------------------------------------------------- keep-alive timing
\* C18: the keep-alive task calls SendColors on every tick it takes, with
\* or without producers connected, so that (each tick being taken when the
\* ticker delivers it, one interval after the tick before) the time since
\* its last send attempt stays below the bridge's idle timeout
C18_KeepAliveEveryTick ==
  sinceSend * keepAliveInterval < bridgeIdleTimeout

\* a tick's frame went out while p1, connected and with a frame forwarded,
\* is in its read loop
C18_Witness ==
  /\ pc[Keeper] = "load" /\ sinceSend = 0
  /\ wire.by = Keeper /\ wire.ok
  /\ pc["p1"] = "read" /\ isStreaming
  /\ lastColors = [id \in { <<"5">> } |-> RGB(255, 0, 0)]

\* ------------------------------------------------------ send serialization
\* task t is inside SendColors
InSend(t) == pc[t] \in {"build", "write", "load", "store"}

\* C19: the SendColors calls of the producer tasks and of the keep-alive
\* task on the one stream are serialized: at no time are two tasks inside
\* SendColors
C19_SendsSerialized ==
  \A t, u \in Senders : (InSend(t) /\ InSend(u)) => t = u

\* ---------------------------------------------------- last-forwarded state
\* C20: a producer task writes the last-forwarded frame and timestamp only
\* in the step it takes holding the state lock after its SendColors call
\* returned nil, storing the frame it sent; the steps it takes after a
\* failed SendColors leave both as they were
C20_UpdateAfterSuccess ==
  [][\A p \in Producers :
       pc'[p] # pc[p] =>
         /\ (pc'[p] = "update") => (pc[p] = "ret" /\ sendErr[p] = NoError /\ mutex' = p)
         /\ (lastColors' # lastColors \/ lastMessageTime' # lastMessageTime)
              => /\ pc[p] = "update" /\ mutex = p /\ sendErr[p] = NoError
                 /\ lastColors' = colors[p]
         /\ ((pc[p] = "ret" /\ sendErr[p] # NoError) \/ outbox[p] # <<>>)
              => (lastColors' = lastColors /\ lastMessageTime' = lastMessageTime)]_vars

\* p2 forwarded {"5": red} at time 1; then the write of p1's empty message
\* failed and p1 was dropped: frame and timestamp are still p2's
C20_Witness ==
  /\ pc["p1"] = "closed" /\ outbox["p1"] # <<>>
  /\ wire.by = "p1" /\ ~wire.ok
  /\ ChannelsAt(wire.buf, 1) = <<0, 0, 0, 0, 0, 0>>
  /\ pc["p2"] = "read"
  /\ lastColors = [id \in { <<"5">> } |-> RGB(255, 0, 0)]
  /\ lastMessageTime = 1

\* ------------------------------------------------- producer disconnects
\* producer p leaves its loop after a read error, and moves
LeaveStep(p) ==
  /\ pc'[p] # pc[p]
  /\ \/ pc[p] = "read" /\ pc'[p] = "unmarkLock"
     \/ pc[p] \in {"unmarkLock", "unmark"} /\ outbox[p] = <<>>

\* C21: a read failure or close on one producer connection ends that
\* producer's loop only: no step of its leaving changes the stream's
\* activity flag, sequence number or transport, nor the position, the
\* colours, the frame or the replies of any other task
C21_ReadFailureIsolated ==
  [][\A p \in Producers :
       LeaveStep(p) =>
         /\ UNCHANGED <<isActive, connOpen, sequenceNum, areaLights, wire>>
         /\ \A t \in Senders \ {p} :
              /\ pc'[t] = pc[t] /\ colors'[t] = colors[t]
              /\ buf'[t] = buf[t] /\ sendErr'[t] = sendErr[t]
         /\ \A q \in Producers \ {p} : outbox'[q] = outbox[q]]_vars

\* p1 left after a read error; p2 connected after that (the streaming flag
\* is set again) and its frame went out on the unchanged stream
C21_Witness ==
  /\ pc["p1"] = "closed" /\ outbox["p1"] = <<>>
  /\ isStreaming
  /\ pc["p2"] = "load" /\ wire.by = "p2" /\ wire.ok
  /\ isActive /\ connOpen /\ sequenceNum = 0

\* --------------------------------------------------- keep-alive failures
\* C22: when the keep-alive send fails the task goes back to waiting for
\* the next tick with the stream and the shared state as they were; it
\* stops only once shutdown has been signalled, and every tick it takes
\* before that leads to a send attempt
C22_KeeperSurvivesFailure ==
  [][/\ (pc[Keeper] = "ret" /\ sendErr[Keeper] # NoError /\ pc'[Keeper] # pc[Keeper])
          => /\ pc'[Keeper] = "select"
             /\ UNCHANGED <<streamVars, wire, serverVars>>
     /\ pc'[Keeper] = "stopped" => stopClosed'
     /\ sinceSend' <= 1]_vars

\* the first tick's send failed (the counter is still 0); on the second
\* tick the task sent again and the frame went out
C22_Witness ==
  /\ pc[Keeper] = "load" /\ nSends = 2
  /\ wire.by = Keeper /\ wire.ok /\ SeqOf(wire.buf) = 0
  /\ sequenceNum = 0 /\ isActive /\ ~stopClosed

\* ------------------------------------------------ keep-alive termination
\* one producer handler, the keep-alive task and the shutdown path
NextOne ==
  \/ handleWebSocket("p1")
  \/ keepAlive
  \/ cleanup

SpecOne == Init /\ [][NextOne]_vars

\* the scheduler runs every task that can take a step; select takes a
\* branch that is ready again and again (it picks among the ready branches
\* at random); a handler that holds the lock goes on to release it
FairOne ==
  /\ WF_vars(keepAlive)
  /\ SF_vars(KeeperStop)
  /\ WF_vars(MarkStreaming("p1") \/ UpdateLast("p1") \/ UnmarkStreaming("p1"))

SpecOneFair == SpecOne /\ FairOne

\* C23: the keep-alive task has terminated only if shutdown was signalled
\* (no failed send, no producer disconnect ends it), and once shutdown is
\* signalled it eventually terminates
C23_KeeperStopsOnShutdown ==
  /\ [](pc[Keeper] = "stopped" => stopClosed)
  /\ (stopClosed ~> pc[Keeper] = "stopped")

\* shutdown has run and the keep-alive task has returned, after a send of
\* its own had failed on the closed stream
C23_Witness ==
  /\ pc[Keeper] = "stopped" /\ stopClosed
  /\ pc[Main] = "returned"
  /\ wire.by = Keeper /\ ~wire.ok /\ ~connOpen

\* ------------------------------------------------------- keep-alive ticks
\* C24: a tick that finds a forwarded frame in the shared state sends that
\* colour map; the task writes the timestamp only under the lock after its
\* send returned nil; no step of the task changes the last-forwarded frame
\* or the streaming flag
C24_KeeperTickEffect ==
  [][pc'[Keeper] # pc[Keeper] =>
       /\ lastColors' = lastColors /\ isStreaming' = isStreaming
       /\ (pc[Keeper] = "tick" /\ DOMAIN lastColors # {})
            => (pc'[Keeper] = "send" /\ colors'[Keeper] = lastColors)
       /\ pc'[Keeper] = "touch" => (pc[Keeper] = "ret" /\ sendErr[Keeper] = NoError)
       /\ lastMessageTime' # lastMessageTime
            => (pc[Keeper] = "touch" /\ mutex = Keeper)]_vars

\* p1 forwarded {"5": red}; the tick sent that map again and, the send
\* having succeeded, set the timestamp
C24_Witness ==
  /\ pc[Keeper] = "select" /\ sinceSend = 0
  /\ wire.by = Keeper /\ wire.ok
  /\ ChannelsAt(wire.buf, 1) = <<255, 0, 0, 0, 0, 0>>
  /\ lastColors = [id \in { <<"5">> } |-> RGB(255, 0, 0)]
  /\ lastMessageTime = 1 /\ sequenceNum = 2 /\ isStreaming

\* ------------------------------------------------------------ state lock
\* task t is inside a network call or about to make one: a SendColors
\* call, a producer's ReadJSON, or the WriteJSON of an error object
InNetworkCall(t) ==
  \/ pc[t] \in {"send", "build", "write", "load", "store"}
  \/ t \in Producers /\ pc[t] = "read"
  \/ t \in Producers /\ pc[t] = "ret" /\ sendErr[t] # NoError

\* C25: no task holds the state lock while it is inside a network call
C25_NoLockAcrossNetwork ==
  \A t \in Senders : InNetworkCall(t) => mutex # t

\* the keep-alive task is writing its frame to the transport while p1,
\* back from its own send, holds the lock to store its frame
C25_Witness ==
  /\ pc[Keeper] = "write"
  /\ pc["p1"] = "update" /\ mutex = "p1"
  /\ wire.by = "p1" /\ wire.ok

\* C26 as claimed: every write of the stream's activity flag is made by a
\* task holding the state lock, and every task entering SendColors, which
\* reads the flag, holds the lock while it reads
C26_SharedStateUnderLock ==
  [][/\ (isActive' # isActive) => mutex = Main
     /\ \A t \in Senders : SendCallStep(t) => mutex = t]_vars

\* C27 as claimed: an open attempt is made only when no earlier streaming
\* session of the area is still active on the bridge
C27_PriorDeactivatedFirst ==
  [][(openAttempts' = openAttempts + 1) => ~priorStream]_vars

\* C28 as claimed: while the stream is inactive no task writes a frame to
\* the transport
C28_InactiveSkipsSends ==
  [][~isActive => \A t \in Senders : ~WriteStep(t)]_vars

\* C29 as claimed: with no client key stored, the activation makes exactly
\* one open attempt
C29_NoRetryWithoutKey ==
  ~clientKey => openAttempts <= 1

\* C30 as claimed: once cleanup has returned every producer connection is
\* closed, so no producer task receives a further message
C30_ShutdownClosesProducers ==
  [][pc[Main] = "returned"
       => \A p \in Producers : ~(pc[p] = "read" /\ pc'[p] = "send")]_vars

\* ------------------------------------------------ synchronous forwarding
\* C31: a producer's SendColors call starts only with a message just read,
\* carries that message's colours until it returns, and the next ReadJSON
\* of that producer starts only after the call has returned nil and the
\* frame was stored: one call per message, in the order of receipt
C31_OneSendPerMessage ==
  [][\A p \in Producers :
       /\ (pc'[p] = "send" /\ pc[p] # "send") => pc[p] = "read"
       /\ (pc[p] = "send" \/ InSend(p)) => colors'[p] = colors[p]
       /\ WriteStep(p) => wire'.buf = buf[p]
       /\ (pc'[p] = "update" /\ pc[p] # "update")
            => (pc[p] = "ret" /\ sendErr[p] = NoError)
       /\ (pc'[p] = "read" /\ pc[p] # "read") => pc[p] \in {"mark", "update"}]_vars

\* p1's first message {"5": red} was written and stored, and p1 has read
\* its second message
C31_Witness ==
  /\ pc["p1"] = "send" /\ nSends = 2
  /\ wire.by = "p1" /\ wire.ok
  /\ ChannelsAt(wire.buf, 1) = <<255, 0, 0, 0, 0, 0>>
  /\ lastColors = [id \in { <<"5">> } |-> RGB(255, 0, 0)]

\* ------------------------------------------------- sends on a closed stream
\* C33: a SendColors call that finds the stream inactive returns the error
\* "stream not active" in that step; nothing is written to the transport
\* and no field of the stream (sequence number, flag, connection, light
\* list) changes
C33_InactiveSendRefused ==
  [][\A t \in Senders :
       (SendCallStep(t) /\ ~isActive)
         => /\ pc'[t] = "ret" /\ sendErr'[t] = "stream not active"
            /\ wire' = wire
            /\ streamVars' = streamVars]_vars

\* the keep-alive task wrote one frame; cleanup then closed the stream and
\* p1's SendColors call was refused: the frame on the wire and the
\* sequence number are still the keep-alive task's
C33_Witness ==
  /\ pc["p1"] = "ret" /\ sendErr["p1"] = "stream not active"
  /\ ~isActive /\ ~connOpen
  /\ wire.by = Keeper /\ wire.ok
  /\ sequenceNum = 1

\* ------------------------------------------------ sequence number and writes
\* the server at the moment p1, connected and marked as streaming, has read
\* the message {"5": red} and its SendColors call has built the frame with
\* sequence number 0 but not yet written it; nSends counts the calls
\* entered from here on
InitInFlight ==
  /\ areaLights = ServerLights
  /\ sequenceNum = 0
  /\ isActive = TRUE
  /\ connOpen = TRUE
  /\ wire = [by |-> NoTask, buf |-> <<>>, ok |-> FALSE]
  /\ isStreaming = TRUE
  /\ mutex = NoTask
  /\ stopClosed = FALSE
  /\ lastColors = EmptyColors
  /\ lastMessageTime = 0
  /\ activated = TRUE
  /\ pc = [t \in Senders \cup {Main} |->
            IF t = "p1" THEN "write" ELSE IF t = "p2" THEN "idle"
            ELSE IF t = Keeper THEN "select" ELSE "serving"]
  /\ colors = [t \in Senders |->
                IF t = "p1" THEN [id \in { <<"5">> } |-> RGB(255, 0, 0)] ELSE EmptyColors]
  /\ buf = [t \in Senders |->
             IF t = "p1" THEN buildStreamMessage([id \in { <<"5">> } |-> RGB(255, 0, 0)])
             ELSE <<>>]
  /\ tmpSeq = [t \in Senders |-> 0]
  /\ sendErr = [t \in Senders |-> NoError]
  /\ nSends = 0
  /\ outbox = [p \in Producers |-> <<>>]
  /\ kLast = EmptyColors
  /\ statusResp = [code |-> 0]
  /\ statusPc = "idle"
  /\ statusIsStreaming = FALSE
  /\ encColors = EmptyColors
  /\ encBuf = <<>>
  /\ inMsg = <<>>
  /\ openAttempts = 1
  /\ startErr = NoError
  /\ nCloses = 0
  /\ sinceSend = 0
  /\ clientKey = TRUE
  /\ priorStream = FALSE
  /\ nDeactivates = 0
  /\ NoEffect

\* the server running on from that moment
SpecInFlight == InitInFlight /\ [][Next]_vars

\* C34 as claimed: the sequence number changes only in a task that has
\* written its frame successfully; building a frame and a failed write
\* leave it as it was; and the frame written after a failed one carries
\* the failed frame's sequence number
C34_SeqOnlyOnSuccess ==
  [][\A t \in Senders :
       /\ (pc[t] = "build" /\ pc'[t] # "build") => sequenceNum' = sequenceNum
       /\ WriteFailStep(t) => sequenceNum' = sequenceNum
       /\ (pc'[t] = "load" /\ pc[t] # "load") => (WriteStep(t) /\ wire'.ok)
       /\ (sequenceNum' # sequenceNum) => \E u \in Senders : pc[u] = "store"
       /\ (WriteStep(t) /\ wire.buf # <<>> /\ ~wire.ok)
            => SeqOf(wire'.buf) = SeqOf(wire.buf)]_vars

\* ------------------------------------------------ activation and open attempts
\* C35 as claimed: every open attempt of StartWebSocketServer, the retry
\* included, is made while streaming is activated for the area
C35_OpenWhileActivated ==
  [][(openAttempts' = openAttempts + 1) => activated]_vars

\* ------------------------------------------------ return paths of the server
\* StartWebSocketServer has returned after streaming was activated: with
\* the error of the second failed open, or, after cleanup, with the error
\* of ListenAndServe. (ListenAndServe returns http.ErrServerClosed only
\* after Shutdown or Close of the server, which nothing calls on this
\* server, so the return nil that follows the if is not a return the
\* program makes.)
ReturnedAfterActivation ==
  \/ pc[Main] = "returned"
  \/ pc[Main] = "failed" /\ startErr = "failed to create DTLS connection"

\* C36: whenever StartWebSocketServer has returned after streaming was
\* activated, the stream, if one was opened, is closed and inactive and
\* the keep-alive task, if it was started, has been told to stop; and the
\* last thing done before the return is a deactivateStreaming call for the
\* area, after which nothing activates streaming again
C36_ReturnCleansUp ==
  [][/\ ReturnedAfterActivation'
          => /\ ~isActive' /\ ~connOpen'
             /\ (stopClosed' \/ pc'[Keeper] = "unstarted")
     /\ (ReturnedAfterActivation' /\ ~ReturnedAfterActivation)
          => /\ nDeactivates' = nDeactivates + 1
             /\ ~activated' \/ activated' = activated
     /\ ReturnedAfterActivation
          => (activated' => activated) /\ nDeactivates' = nDeactivates]_vars

\* ListenAndServe failed after a keep-alive frame had gone out: cleanup
\* closed stopChan and the stream, the one deactivateStreaming call of the
\* run succeeded and StartWebSocketServer returned the error
C36_Witness ==
  /\ pc[Main] = "returned" /\ startErr = ListenError
  /\ openAttempts = 1 /\ nCloses = 1 /\ nDeactivates = 1
  /\ stopClosed /\ ~isActive /\ ~connOpen /\ ~activated
  /\ wire.by = Keeper /\ wire.ok

\* ------------------------------------------------ the last forwarded frame
\* producer p is between its SendColors call and its update of lastColors
BetweenSendAndUpdate(p) ==
  pc[p] = "send" \/ InSend(p) \/ pc[p] \in {"ret", "update"}

\* the colour channels of the frame last written are those lastColors encodes
LastColorsIsWire ==
  \A i \in 1..Len(areaLights) :
    ChannelsAt(wire.buf, i) = ChannelsAt(buildStreamMessage(lastColors), i)

\* C37 as claimed: when the frame last written was a producer's, written
\* successfully, and no producer is between its send and its update,
\* lastColors is the colour map of that frame
C37_LastColorsIsLatest ==
  (/\ wire.by \in Producers /\ wire.ok
   /\ \A p \in Producers : ~BetweenSendAndUpdate(p))
    => LastColorsIsWire

\* ------------------------------------------------ keep-alive and newer frames
\* C38 as claimed: a frame the keep-alive task writes with success
\* carries the colours of the producer frame written last before it, and
\* is all-black when no frame was written before it
C38_KeepAliveNeverReverts ==
  [][(WriteStep(Keeper) /\ wire'.ok) =>
       /\ (wire.by \in Producers /\ wire.ok)
            => \A i \in 1..Len(areaLights) :
                 ChannelsAt(wire'.buf, i) = ChannelsAt(wire.buf, i)
       /\ (wire.by = NoTask)
            => \A i \in 1..Len(areaLights) :
                 ChannelsAt(wire'.buf, i) = <<0, 0, 0, 0, 0, 0>>]_vars

\* -------------------------------------------------------------- streamEffect
\* the effect names StreamEffect and streamEffectHTTP know
EffectNames == {"rainbow", "pulse", "wave", "random"}

\* the names the command is run with: the four effects and one other word
EffectInputs == EffectNames \cup {"disco"}

\* longest duration, in seconds, an effect is run for
MaxDuration == 1

\* the ticker period of a streaming effect loop in milliseconds:
\* s.updateRate (16 ms), and 200 ms in streamRandomEffect
streamPeriod(name) == IF name = "random" THEN 200 ELSE 16

\* the ticker period of an HTTP effect loop in milliseconds
httpPeriod(name) ==
  IF name = "pulse" THEN 50 ELSE IF name = "random" THEN 200 ELSE 100

\* time.Duration(durationSec) * time.Second, in milliseconds
durationMs == durationSec * 1000

\* time.Since(startTime) when the next tick is received: one period later,
\* or, after a stall, at the end of the duration
NextTickTimes(period) ==
  {elapsed + period} \cup
    (IF durationMs > elapsed + period THEN {durationMs} ELSE {})

\* the state at the entry of streamEffect: no stream exists, no task of
\* the server runs, the command's goroutine is at the first statement
InitEffect ==
  /\ areaLights = ServerLights
  /\ sequenceNum = 0
  /\ isActive = FALSE
  /\ connOpen = FALSE
  /\ wire = [by |-> NoTask, buf |-> <<>>, ok |-> FALSE]
  /\ isStreaming = FALSE
  /\ mutex = NoTask
  /\ stopClosed = FALSE
  /\ lastColors = EmptyColors
  /\ lastMessageTime = 0
  /\ activated = FALSE
  /\ pc = [t \in Senders \cup {Main} |->
            IF t \in Producers THEN "idle" ELSE IF t = Keeper THEN "unstarted" ELSE "effDeactivate"]
  /\ colors = [t \in Senders \cup {Main} |-> EmptyColors]
  /\ buf = [t \in Senders \cup {Main} |-> <<>>]
  /\ tmpSeq = [t \in Senders \cup {Main} |-> 0]
  /\ sendErr = [t \in Senders \cup {Main} |-> NoError]
  /\ nSends = 0
  /\ outbox = [p \in Producers |-> <<>>]
  /\ kLast = EmptyColors
  /\ statusResp = [code |-> 0]
  /\ statusPc = "idle"
  /\ statusIsStreaming = FALSE
  /\ encColors = EmptyColors
  /\ encBuf = <<>>
  /\ inMsg = <<>>
  /\ openAttempts = 0
  /\ startErr = NoError
  /\ nCloses = 0
  /\ sinceSend = 0
  /\ clientKey \in BOOLEAN
  /\ priorStream \in BOOLEAN
  /\ nDeactivates = 0
  /\ effectName \in EffectInputs
  /\ durationSec \in 0..MaxDuration
  /\ elapsed = 0
  /\ deferred = <<>>
  /\ exitCalls = <<>>
  /\ httpEffect = ""
  /\ effErr = NoError
  /\ hue = 0 /\ phase = 0 /\ offset = 0

\* deactivateStreaming(area.ID): any earlier session of the area is ended
EffectDeactivatePrior ==
  /\ pc[Main] = "effDeactivate"
  /\ deactivateStreaming
  /\ pc' = [pc EXCEPT ![Main] = "effSleep"]
  /\ UNCHANGED <<streamVars, wire, isStreaming, mutex, stopClosed, lastColors,
                 lastMessageTime, sendVars, nSends, outbox, kLast, statusVars,
                 encVars, inMsg, lifeVars, sinceSend, clientKey, effVars>>

\* time.Sleep(500 * time.Millisecond)
EffectSleep ==
  /\ pc[Main] = "effSleep"
  /\ pc' = [pc EXCEPT ![Main] = "effActivate"]
  /\ UNCHANGED <<streamVars, wire, serverVars, sendVars, nSends, outbox, kLast,
                 statusVars, encVars, inMsg, lifeVars, sinceSend, envVars, effVars>>

\* if err := activateStreaming(area.ID); err != nil { return err }
\* defer deactivateStreaming(area.ID)
EffectActivate ==
  /\ pc[Main] = "effActivate"
  /\ \E ok \in BOOLEAN :
       IF ok
         THEN /\ activated' = TRUE
              /\ deferred' = Append(deferred, "deactivateStreaming")
              /\ pc' = [pc EXCEPT ![Main] = "effOpen"]
              /\ UNCHANGED effErr
         ELSE /\ effErr' = "activateStreaming failed"
              /\ pc' = [pc EXCEPT ![Main] = "effReturned"]
              /\ UNCHANGED <<activated, deferred>>
  /\ UNCHANGED <<streamVars, wire, isStreaming, mutex, stopClosed, lastColors,
                 lastMessageTime, sendVars, nSends, outbox, kLast, statusVars,
                 encVars, inMsg, lifeVars, sinceSend, envVars,
                 loopVars, effectName, durationSec, elapsed, exitCalls, httpEffect>>

\* dtlsStream, err := createDTLSStreamConnection(area): on error fall back
\* to streamEffectHTTP; otherwise defer dtlsStream.Close()
EffectOpen ==
  /\ pc[Main] = "effOpen"
  /\ \E ok \in (IF clientKey THEN BOOLEAN ELSE {FALSE}) :
       IF ok
         THEN /\ isActive' = TRUE
              /\ connOpen' = TRUE
              /\ sequenceNum' = 0
              /\ deferred' = Append(deferred, "Close")
              /\ pc' = [pc EXCEPT ![Main] = "effDispatch"]
         ELSE /\ pc' = [pc EXCEPT ![Main] = "httpDispatch"]
              /\ UNCHANGED <<isActive, connOpen, sequenceNum, deferred>>
  /\ UNCHANGED <<areaLights, wire, serverVars, sendVars, nSends, outbox, kLast,
                 statusVars, encVars, inMsg, lifeVars, sinceSend, envVars,
                 loopVars, effectName, durationSec, elapsed, exitCalls, httpEffect, effErr>>

\* DTLSStream.StreamEffect: the switch on effectName; in the effect's
\* function startTime := time.Now() and hue, phase or offset := 0.0
StreamEffect ==
  /\ pc[Main] = "effDispatch"
  /\ IF effectName \in EffectNames
       THEN /\ elapsed' = 0
            /\ hue' = 0 /\ phase' = 0 /\ offset' = 0
            /\ pc' = [pc EXCEPT ![Main] = "effLoop"]
            /\ UNCHANGED effErr
       ELSE /\ effErr' = "unknown effect"
            /\ pc' = [pc EXCEPT ![Main] = "effExit"]
            /\ UNCHANGED <<elapsed, loopVars>>
  /\ UNCHANGED <<streamVars, wire, serverVars, sendVars, nSends, outbox, kLast,
                 statusVars, encVars, inMsg, lifeVars, sinceSend, envVars,
                 effectName, durationSec, deferred, exitCalls, httpEffect>>

\* for time.Since(startTime) < time.Duration(durationSec)*time.Second;
\* after the loop: return nil
EffectLoopCheck ==
  /\ pc[Main] = "effLoop"
  /\ IF elapsed < durationMs
       THEN /\ pc' = [pc EXCEPT ![Main] = "effWait"]
            /\ UNCHANGED effErr
       ELSE /\ effErr' = NoError
            /\ pc' = [pc EXCEPT ![Main] = "effExit"]
  /\ UNCHANGED <<streamVars, wire, serverVars, sendVars, nSends, outbox, kLast,
                 statusVars, encVars, inMsg, lifeVars, sinceSend, envVars,
                 loopVars, effectName, durationSec, elapsed, deferred, exitCalls, httpEffect>>

\* the whole hues at which x*255, computed in float64 as hsvToRGB does
\* (h/60.0 is rounded), falls just below the whole number the exact value
\* is, so that the conversion to uint8 gives one less
HueRoundsDown ==
  {4, 8, 12, 16, 20, 92, 96, 100, 104, 108, 112, 116, 128, 136, 144, 152,
   160, 168, 176, 184, 192, 200, 208, 216, 224, 232, 244, 256, 260, 272,
   276, 288, 292, 308, 312, 324, 328, 340, 344, 356}

\* |k|
abs(k) == IF k < 0 THEN -k ELSE k

\* x*255 for the hue p/n, 0 <= p/n < 360, as the exact fraction
\* 255*(1 - |mod(h/60, 2) - 1|): its whole part, and whether it is whole
XFloor(p, n) == (255 * (60 * n - abs((p % (120 * n)) - 60 * n))) \div (60 * n)

XIsWhole(p, n) == (255 * (60 * n - abs((p % (120 * n)) - 60 * n))) % (60 * n) = 0

\* uint8(x*255) as float64 arithmetic gives it. Where the exact value is
\* not whole the rounding cannot reach the next whole number below. For a
\* whole hue HueRoundsDown tells when it does. For a hue with a fraction
\* and a whole exact value (which takes a divisor that is a multiple of
\* 17) the float64 result is the exact value at some hues and falls below
\* it at others, and both are allowed
XValues(p, n) ==
  IF p % n = 0
    THEN { XFloor(p, n) - (IF (p \div n) \in HueRoundsDown THEN 1 ELSE 0) }
  ELSE IF XIsWhole(p, n) THEN { XFloor(p, n) - 1, XFloor(p, n) }
  ELSE { XFloor(p, n) }

\* hsvToRGB(h, 1.0, 1.0) for the hue h = p/n, 0 <= h < 360 (every call
\* passes s = v = 1.0, so c = 1 and m = 0): x = 1 - |mod(h/60, 2) - 1|, the
\* six-way switch on h, and uint8(.*255) of each channel
hsvToRGB(p, n) ==
  LET c == 255
  IN  { IF p < 60 * n THEN RGB(c, x, 0)
        ELSE IF p < 120 * n THEN RGB(x, c, 0)
        ELSE IF p < 180 * n THEN RGB(0, c, x)
        ELSE IF p < 240 * n THEN RGB(0, x, c)
        ELSE IF p < 300 * n THEN RGB(x, 0, c)
        ELSE RGB(c, 0, x) : x \in XValues(p, n) }

\* hsvToRGB(h, 1.0, 1.0) for a whole hue h
hsvToRGBWhole(h) == CHOOSE c \in hsvToRGB(h, 1) : TRUE

\* int(brightness * 255) with brightness = 0.5 + 0.5*((1.0+phase)/2.0) and
\* phase the float64 sum of k additions of 0.1, k < 3600 (the phase is set
\* back to 0 after the 3600th): 191.25 + 6.375 k cut to a whole number,
\* one less at the ticks where the exact value is whole (k = 2 mod 8) and
\* the sum falls just below k/10
PulseLevel(k) ==
  ((7650 + 255 * k) \div 40)
    - (IF k % 8 = 2 /\ (k \in 50..186 \/ k \in 754..3010) THEN 1 ELSE 0)

\* intensity := uint8(brightness * 255). From the eleventh tick on the
\* value is above 255 and the result of the conversion depends on the
\* implementation: the low byte when the conversion goes through a wider
\* integer, 255 when it saturates
PulseIntensity(k) ==
  IF PulseLevel(k) <= 255 THEN {PulseLevel(k)}
                          ELSE {PulseLevel(k) % 256, 255}

\* the hue of the light at position i (from 0) of the wave, times
\* numLights: offset + float64(i)*360.0/float64(numLights), less 360
\* when >= 360
WaveHue(i) ==
  LET n == Len(areaLights)
      p == offset * n + i * 360
  IN  IF p >= 360 * n THEN p - 360 * n ELSE p

\* the colours the wave can give the light at position i
WaveColors(i) == hsvToRGB(WaveHue(i), Len(areaLights))

\* the hues drawn for float64(time.Now().UnixNano() % 360)
HueSamples == {0, 4, 120, 359}

\* the position (from 0) whose colour a light id keeps in the map: the
\* loop over s.area.Lights assigns in order, so the last one
LastIndex(id) ==
  CHOOSE i \in 0..(Len(areaLights) - 1) :
    /\ areaLights[i + 1] = id
    /\ \A j \in 0..(Len(areaLights) - 1) : areaLights[j + 1] = id => j <= i

\* the colour maps an effect loop can build on this tick
EffectColors ==
  IF effectName = "rainbow"
    THEN { [id \in LightSet(areaLights) |-> hsvToRGBWhole(hue)] }
  ELSE IF effectName = "pulse"
    THEN { [id \in LightSet(areaLights) |-> RGB(v, v, v)] :
             v \in PulseIntensity(phase) }
  ELSE IF effectName = "wave"
    THEN { m \in [LightSet(areaLights) ->
                   UNION { WaveColors(i) : i \in 0..(Len(areaLights) - 1) }] :
             \A id \in LightSet(areaLights) : m[id] \in WaveColors(LastIndex(id)) }
  ELSE { [id \in LightSet(areaLights) |-> hsvToRGBWhole(f[id])] :
           f \in [LightSet(areaLights) -> HueSamples] }

\* mutant: the clock of the loop stands still
EffectTickFrozenClock ==
  /\ pc[Main] = "effWait"
  /\ elapsed' = elapsed
  /\ \E m \in EffectColors : colors' = [colors EXCEPT ![Main] = m]
  /\ pc' = [pc EXCEPT ![Main] = "send"]
  /\ UNCHANGED <<streamVars, wire, serverVars, buf, tmpSeq, sendErr, nSends, outbox,
                 kLast, statusVars, encVars, inMsg, lifeVars, sinceSend, envVars,
                 loopVars, effectName, durationSec, deferred, exitCalls, httpEffect, effErr>>

\* <-ticker.C; the colour map of this frame is built from the running hue,
\* phase or offset; s.SendColors(colors) is called
EffectTick ==
  /\ pc[Main] = "effWait"
  /\ elapsed' \in NextTickTimes(streamPeriod(effectName))
  /\ \E m \in EffectColors : colors' = [colors EXCEPT ![Main] = m]
  /\ pc' = [pc EXCEPT ![Main] = "send"]
  /\ UNCHANGED <<streamVars, wire, serverVars, buf, tmpSeq, sendErr, nSends, outbox,
                 kLast, statusVars, encVars, inMsg, lifeVars, sinceSend, envVars,
                 loopVars, effectName, durationSec, deferred, exitCalls, httpEffect, effErr>>

\* SendColors returned nil: hue += 2.0 (0 from 360 on), phase += 0.1 (0
\* above 360.0, which the float64 sum passes at the 3600th addition) or
\* offset += 3.0 (0 from 360 on), and the loop condition is tested again
EffectSent ==
  /\ pc[Main] = "ret"
  /\ sendErr[Main] = NoError
  /\ pc' = [pc EXCEPT ![Main] = "effLoop"]
  /\ colors' = [colors EXCEPT ![Main] = EmptyColors]
  /\ hue' = IF effectName # "rainbow" THEN hue
            ELSE IF hue + 2 >= 360 THEN 0 ELSE hue + 2
  /\ phase' = IF effectName # "pulse" THEN phase
              ELSE IF phase + 1 >= 3600 THEN 0 ELSE phase + 1
  /\ offset' = IF effectName # "wave" THEN offset
               ELSE IF offset + 3 >= 360 THEN 0 ELSE offset + 3
  /\ UNCHANGED <<streamVars, wire, serverVars, buf, tmpSeq, sendErr, nSends, outbox,
                 kLast, statusVars, encVars, inMsg, lifeVars, sinceSend, envVars,
                 effectName, durationSec, elapsed, deferred, exitCalls,
                 httpEffect, effErr>>

\* if err := s.SendColors(colors); err != nil { return err }
EffectSendFailed ==
  /\ pc[Main] = "ret"
  /\ sendErr[Main] # NoError
  /\ effErr' = sendErr[Main]
  /\ pc' = [pc EXCEPT ![Main] = "effExit"]
  /\ colors' = [colors EXCEPT ![Main] = EmptyColors]
  /\ sendErr' = [sendErr EXCEPT ![Main] = NoError]
  /\ UNCHANGED <<streamVars, wire, serverVars, buf, tmpSeq, nSends, outbox,
                 kLast, statusVars, encVars, inMsg, lifeVars, sinceSend, envVars,
                 loopVars, effectName, durationSec, elapsed, deferred, exitCalls, httpEffect>>

\* mutant: the fallback always runs the rainbow effect
streamEffectHTTPAlwaysRainbow ==
  /\ pc[Main] = "httpDispatch"
  /\ httpEffect' = "rainbow"
  /\ pc' = [pc EXCEPT ![Main] = "httpGetLights"]
  /\ UNCHANGED <<streamVars, wire, serverVars, sendVars, nSends, outbox, kLast,
                 statusVars, encVars, inMsg, lifeVars, sinceSend, envVars,
                 loopVars, effectName, durationSec, elapsed, deferred, exitCalls, effErr>>

\* streamEffectHTTP: the switch on effectName
streamEffectHTTP ==
  /\ pc[Main] = "httpDispatch"
  /\ IF effectName \in EffectNames
       THEN /\ httpEffect' = effectName
            /\ pc' = [pc EXCEPT ![Main] = "httpGetLights"]
            /\ UNCHANGED effErr
       ELSE /\ effErr' = "unknown effect"
            /\ pc' = [pc EXCEPT ![Main] = "effExit"]
            /\ UNCHANGED httpEffect
  /\ UNCHANGED <<streamVars, wire, serverVars, sendVars, nSends, outbox, kLast,
                 statusVars, encVars, inMsg, lifeVars, sinceSend, envVars,
                 loopVars, effectName, durationSec, elapsed, deferred, exitCalls>>

\* run...Effect: lights, err := bridge.GetLights(); on error return err;
\* startTime := time.Now()
HTTPGetLights ==
  /\ pc[Main] = "httpGetLights"
  /\ \E ok \in BOOLEAN :
       IF ok
         THEN /\ elapsed' = 0
              /\ pc' = [pc EXCEPT ![Main] = "httpLoop"]
              /\ UNCHANGED effErr
         ELSE /\ effErr' = "GetLights failed"
              /\ pc' = [pc EXCEPT ![Main] = "effExit"]
              /\ UNCHANGED elapsed
  /\ UNCHANGED <<streamVars, wire, serverVars, sendVars, nSends, outbox, kLast,
                 statusVars, encVars, inMsg, lifeVars, sinceSend, envVars,
                 loopVars, effectName, durationSec, deferred, exitCalls, httpEffect>>

\* run...Effect: the loop condition; after the loop: return nil
HTTPLoopCheck ==
  /\ pc[Main] = "httpLoop"
  /\ IF elapsed < durationMs
       THEN /\ pc' = [pc EXCEPT ![Main] = "httpWait"]
            /\ UNCHANGED effErr
       ELSE /\ effErr' = NoError
            /\ pc' = [pc EXCEPT ![Main] = "effExit"]
  /\ UNCHANGED <<streamVars, wire, serverVars, sendVars, nSends, outbox, kLast,
                 statusVars, encVars, inMsg, lifeVars, sinceSend, envVars,
                 loopVars, effectName, durationSec, elapsed, deferred, exitCalls, httpEffect>>

\* run...Effect: <-ticker.C; the lights are set through the control API
\* (results ignored); nothing is sent on a stream
HTTPTick ==
  /\ pc[Main] = "httpWait"
  /\ elapsed' \in NextTickTimes(httpPeriod(httpEffect))
  /\ pc' = [pc EXCEPT ![Main] = "httpLoop"]
  /\ UNCHANGED <<streamVars, wire, serverVars, sendVars, nSends, outbox, kLast,
                 statusVars, encVars, inMsg, lifeVars, sinceSend, envVars,
                 loopVars, effectName, durationSec, deferred, exitCalls, httpEffect, effErr>>

\* the effect of one deferred call: dtlsStream.Close() or
\* deactivateStreaming(area.ID)
RunCall(call) ==
  IF call = "Close"
    THEN /\ isActive' = FALSE
         /\ connOpen' = FALSE
         /\ nCloses' = nCloses + 1
         /\ UNCHANGED <<activated, priorStream, nDeactivates>>
    ELSE /\ deactivateStreaming
         /\ UNCHANGED <<isActive, connOpen, nCloses>>

\* mutant: the deferred calls run in the order they were deferred
RunDeferredOldestFirst ==
  /\ pc[Main] = "effExit"
  /\ deferred # <<>>
  /\ RunCall(Head(deferred))
  /\ exitCalls' = Append(exitCalls, Head(deferred))
  /\ deferred' = Tail(deferred)
  /\ UNCHANGED <<areaLights, sequenceNum, wire, isStreaming, mutex, stopClosed,
                 lastColors, lastMessageTime, sendVars, taskVars, encVars, inMsg,
                 openAttempts, startErr, sinceSend, clientKey,
                 loopVars, effectName, durationSec, elapsed, httpEffect, effErr>>

\* streamEffect returns: the deferred calls run, the last deferred first
RunDeferred ==
  /\ pc[Main] = "effExit"
  /\ deferred # <<>>
  /\ RunCall(deferred[Len(deferred)])
  /\ exitCalls' = Append(exitCalls, deferred[Len(deferred)])
  /\ deferred' = SubSeq(deferred, 1, Len(deferred) - 1)
  /\ UNCHANGED <<areaLights, sequenceNum, wire, isStreaming, mutex, stopClosed,
                 lastColors, lastMessageTime, sendVars, taskVars, encVars, inMsg,
                 openAttempts, startErr, sinceSend, clientKey,
                 loopVars, effectName, durationSec, elapsed, httpEffect, effErr>>

\* all deferred calls have run: the caller has the result
EffectReturn ==
  /\ pc[Main] = "effExit"
  /\ deferred = <<>>
  /\ pc' = [pc EXCEPT ![Main] = "effReturned"]
  /\ UNCHANGED <<streamVars, wire, serverVars, sendVars, nSends, outbox, kLast,
                 statusVars, encVars, inMsg, lifeVars, sinceSend, envVars, effVars>>

streamEffect ==
  \/ EffectDeactivatePrior
  \/ EffectSleep
  \/ EffectActivate
  \/ EffectOpen
  \/ StreamEffect
  \/ EffectLoopCheck
  \/ EffectTick
  \/ SendColors(Main)
  \/ EffectSent
  \/ EffectSendFailed
  \/ streamEffectHTTP
  \/ HTTPGetLights
  \/ HTTPLoopCheck
  \/ HTTPTick
  \/ RunDeferred
  \/ EffectReturn

NextEffect == streamEffect

SpecEffect == InitEffect /\ [][NextEffect]_vars

\* the command's goroutine keeps running until streamEffect has returned
SpecEffectFair == SpecEffect /\ WF_vars(NextEffect)

\* ------------------------------------------------ claims about streamEffect
\* the set of the elements of a sequence
Range(q) == { q[i] : i \in 1..Len(q) }

\* streamEffect has activated streaming (its deactivation is deferred or run)
ActivatedOnce == "deactivateStreaming" \in Range(deferred) \cup Range(exitCalls)

\* streamEffect has opened a stream (its Close is deferred or run)
Opened == "Close" \in Range(deferred) \cup Range(exitCalls)

\* streamEffect is returning or has returned
Leaving == pc[Main] \in {"effExit", "effReturned"}

\* C32: the HTTP path runs only when no stream was opened and runs the
\* effect named in the call; a call with a known name that opened no
\* stream has run that effect over HTTP when it returns; a call with an
\* unknown name writes no frame, starts no HTTP effect and, once
\* streaming was activated, returns the error "unknown effect"
C32_FallbackSameEffect ==
  /\ (httpEffect # "") => (httpEffect = effectName /\ ~Opened)
  /\ (Leaving /\ ActivatedOnce /\ ~Opened /\ effectName \in EffectNames)
       => httpEffect = effectName
  /\ (effectName \notin EffectNames) => (wire.by = NoTask /\ httpEffect = "")
  /\ (Leaving /\ ActivatedOnce /\ effectName \notin EffectNames)
       => effErr = "unknown effect"

\* no stream could be opened and the pulse effect ran for its second over
\* the HTTP API, without a frame on any transport
C32_Witness ==
  /\ pc[Main] = "effReturned"
  /\ ~Opened /\ httpEffect = "pulse" /\ effectName = "pulse"
  /\ durationSec = 1 /\ elapsed >= 1000
  /\ effErr = NoError /\ wire.by = NoTask

\* C39: in a streaming effect loop every tick received is followed by one
\* SendColors call and a call is made only on a tick received before the
\* duration has elapsed, with the clock advanced; a call that failed ends
\* the loop with its error; the loop ends with nil once the duration has
\* elapsed; and every loop entered is left and streamEffect returns
C39_EffectLoopTerminates ==
  /\ [][/\ (pc[Main] = "effWait" /\ pc'[Main] # "effWait") => pc'[Main] = "send"
        /\ (pc'[Main] = "send" /\ pc[Main] # "send")
             => (pc[Main] = "effWait" /\ elapsed < durationMs /\ elapsed' > elapsed)
        /\ (pc[Main] = "ret" /\ pc'[Main] # "ret" /\ sendErr[Main] # NoError)
             => (pc'[Main] = "effExit" /\ effErr' = sendErr[Main])
        /\ (pc[Main] = "effLoop" /\ pc'[Main] # "effLoop")
             => IF elapsed >= durationMs
                  THEN pc'[Main] = "effExit" /\ effErr' = NoError
                  ELSE pc'[Main] = "effWait"]_vars
  /\ (pc[Main] = "effLoop") ~> (pc[Main] = "effReturned")

\* the wave effect ran for one second without a stall or a failure: 63
\* frames, 16 ms apart, and nil is returned
C39_Witness ==
  /\ pc[Main] = "effReturned" /\ effErr = NoError
  /\ effectName = "wave" /\ durationSec = 1
  /\ sequenceNum = 63 /\ elapsed = 1008 /\ offset = 189
  /\ wire.by = Main /\ wire.ok
  /\ ChannelsAt(wire.buf, 1) = <<0, 0, 229, 0, 255, 0>>
  /\ ChannelsAt(wire.buf, 2) = <<255, 0, 25, 0, 0, 0>>

\* C40: during the return of streamEffect the stream it opened is closed
\* before deactivateStreaming is called; once it has returned after a
\* successful activation, the stream is closed and deactivateStreaming has
\* been called exactly once, last
C40_CloseThenDeactivate ==
  /\ (Opened /\ "deactivateStreaming" \in Range(exitCalls))
       => (~isActive /\ ~connOpen /\ exitCalls[1] = "Close")
  /\ Len(SelectSeq(exitCalls, LAMBDA c : c = "deactivateStreaming")) <= 1
  /\ (pc[Main] = "effReturned" /\ ActivatedOnce)
       => /\ ~isActive /\ ~connOpen
          /\ exitCalls = IF Opened THEN <<"Close", "deactivateStreaming">>
                         ELSE <<"deactivateStreaming">>

\* a send of the rainbow effect failed: streamEffect returned that error
\* after closing the stream and then deactivating streaming
C40_Witness ==
  /\ pc[Main] = "effReturned"
  /\ effectName = "rainbow" /\ effErr = "failed to send DTLS message"
  /\ wire.by = Main /\ ~wire.ok
  /\ exitCalls = <<"Close", "deactivateStreaming">>
  /\ nCloses = 1 /\ ~isActive /\ ~connOpen

====
